---- MODULE Spec2Model ----
(***************************************************************************)
(* A model of libzyzzyva's WordEngine (src/src/libzyzzyva/WordEngine.cpp). *)
(*                                                                         *)
(* Strings are sequences of character codes (QChar code units), so that    *)
(* upper-casing, whitespace simplification, splitting, regular-expression  *)
(* matching and QString ordering are computed, not assumed.                *)
(***************************************************************************)
EXTENDS Integers, Sequences, FiniteSets, TLC

VARIABLES
    graph,            \* WordEngine::graph, as the set of words the forward graph accepts
    reverseGraph,     \* the words of the reverse graph of WordEngine::graph
    numAnagramsMap,   \* WordEngine::numAnagramsMap : alphagram -> count
    lexiconName,      \* WordEngine::lexiconName
    definitions,      \* WordEngine::definitions : word -> multimap<pos, sense>
    stems,            \* WordEngine::stems : length -> list of stems
    stemAlphagrams,   \* WordEngine::stemAlphagrams : length -> set of alphagrams
    call,             \* the activation of getDefinition that is running, if any
    definitionsThread, \* the thread that loads definitions, and its connections
    crosswordGameForm, \* the CrosswordGameForm: its thread pointer, buttons and messages
    readWords,        \* history: the words importTextFile has read so far
    lastOp            \* history: the last operation, with what it read and returned

vars ==
    <<graph, reverseGraph, numAnagramsMap, lexiconName, definitions, stems,
      stemAlphagrams, call, definitionsThread, crosswordGameForm, readWords,
      lastOp>>

-----------------------------------------------------------------------------
(* Bounds of the model *)

\* the most connections of the signals of one IscConnectionThread to the form
MaxSignalConnections == 2

\* the most messages appended to the message area of the form
MaxMessages == 2

\* the longest text file an import reads, in lines
MaxFileLines == 2

\* the longest word list, in lines, read where other operations are interleaved
MaxLexiconFileLines == 1

\* the longest anagram-count file, in lines
MaxCountFileLines == 1

\* text imports stop once an anagram count has reached this value
MaxAnagramCount == 3

\* the largest rank a ProbabilityOrder condition asks for
MaxRank == 4
MaxConditions == 2
MaxConnections == 2
MaxStems == 2

-----------------------------------------------------------------------------
(* Characters and QString helpers *)

IsSpace(c) == c = 32 \/ c = 9

IsUpperChar(c) == c >= 65 /\ c <= 90

IsLowerChar(c) == c >= 97 /\ c <= 122

IsDigitChar(c) == c >= 48 /\ c <= 57

\* \w of QRegExp: letters, digits and the underscore
IsWordChar(c) == IsUpperChar(c) \/ IsLowerChar(c) \/ IsDigitChar(c) \/ c = 95

toUpperChar(c) == IF IsLowerChar(c) THEN c - 32 ELSE c

toLowerChar(c) == IF IsUpperChar(c) THEN c + 32 ELSE c

\* QString::toUpper
toUpper(s) == [i \in 1..Len(s) |-> toUpperChar(s[i])]

\* QString::operator< : lexicographic order on code units
RECURSIVE LexLess(_, _)
LexLess(a, b) ==
    IF b = <<>> THEN FALSE
    ELSE IF a = <<>> THEN TRUE
    ELSE IF Head(a) # Head(b) THEN Head(a) < Head(b)
    ELSE LexLess(Tail(a), Tail(b))

\* string.left(n) of Qt: the whole string when n < 0 or n > size
left(s, n) == IF n < 0 \/ n > Len(s) THEN s ELSE SubSeq(s, 1, n)

\* string.right(n) of Qt: the whole string when n < 0 or n > size
right(s, n) == IF n < 0 \/ n > Len(s) THEN s ELSE SubSeq(s, Len(s) - n + 1, Len(s))

\* drop leading white space
RECURSIVE TrimLeft(_)
TrimLeft(s) ==
    IF s # <<>> /\ IsSpace(Head(s)) THEN TrimLeft(Tail(s)) ELSE s

\* QString::simplified: white space stripped at both ends, inner runs become one space
RECURSIVE simplified(_)
simplified(s) ==
    LET t == TrimLeft(s) IN
    IF t = <<>> THEN <<>>
    ELSE LET rest == Tail(t) IN
         IF rest # <<>> /\ IsSpace(Head(rest))
         THEN LET more == simplified(rest) IN
              IF more = <<>> THEN <<Head(t)>> ELSE <<Head(t), 32>> \o more
         ELSE <<Head(t)>> \o simplified(rest)

\* index (1-based) of the first space of s, 0 when there is none
FirstSpace(s) ==
    IF \E i \in 1..Len(s) : s[i] = 32
    THEN CHOOSE i \in 1..Len(s) : s[i] = 32 /\ \A j \in 1..(i - 1) : s[j] # 32
    ELSE 0

\* line.section (' ', 0, 0): the text before the first space
sectionFirst(s) ==
    IF FirstSpace(s) = 0 THEN s ELSE SubSeq(s, 1, FirstSpace(s) - 1)

\* line.section (' ', 1): the text after the first space
sectionRest(s) ==
    IF FirstSpace(s) = 0 THEN <<>> ELSE SubSeq(s, FirstSpace(s) + 1, Len(s))

\* insert a character into an ascending sequence
RECURSIVE InsertChar(_, _)
InsertChar(c, s) ==
    IF s = <<>> THEN <<c>>
    ELSE IF c <= Head(s) THEN <<c>> \o s
    ELSE <<Head(s)>> \o InsertChar(c, Tail(s))

\* Auxil::getAlphagram: the letters of the word in ascending order
RECURSIVE getAlphagram(_)
getAlphagram(w) ==
    IF w = <<>> THEN <<>> ELSE InsertChar(Head(w), getAlphagram(Tail(w)))

-----------------------------------------------------------------------------
(* WordGraph *)

\* WordGraph::containsWord
containsWord(g, w) == w \in g

\* WordGraph::addWord
addWord(g, w) == g \cup {w}

\* WordEngine::isAcceptable
isAcceptable(w) == containsWord(graph, w)

-----------------------------------------------------------------------------
(* numAnagramsMap *)

\* QMap::operator[] as an rvalue: the default value 0 for a missing key
MapValue(m, k) == IF k \in DOMAIN m THEN m[k] ELSE 0

\* m[k] = v
MapPut(m, k, v) == [x \in (DOMAIN m) \cup {k} |-> IF x = k THEN v ELSE m[x]]

\* WordEngine::numAnagrams, on a given map
numAnagramsIn(m, w) ==
    LET alpha == getAlphagram(w) IN
    IF alpha \in DOMAIN m THEN m[alpha] ELSE 0

numAnagrams(w) == numAnagramsIn(numAnagramsMap, w)

-----------------------------------------------------------------------------
(* Searching in strings *)

\* does pat occur in s at index i (1-based)
OccursAt(s, pat, i) ==
    /\ i >= 1
    /\ i + Len(pat) - 1 <= Len(s)
    /\ \A j \in 1..Len(pat) : s[i + j - 1] = pat[j]

\* QString::indexOf (pat, from), 1-based, 0 when pat does not occur
RECURSIVE IndexOfFrom(_, _, _)
IndexOfFrom(s, pat, from) ==
    IF from > Len(s) THEN 0
    ELSE IF OccursAt(s, pat, from) THEN from
    ELSE IndexOfFrom(s, pat, from + 1)

\* the length of the longest run of \w characters of s that starts at index i
RECURSIVE WordRun(_, _)
WordRun(s, i) ==
    IF i <= Len(s) /\ IsWordChar(s[i]) THEN 1 + WordRun(s, i + 1) ELSE 0

\* QString::split (sep), empty parts kept
RECURSIVE split(_, _)
split(s, sep) ==
    LET i == IndexOfFrom(s, sep, 1) IN
    IF i = 0 THEN <<s>>
    ELSE <<SubSeq(s, 1, i - 1)>> \o split(SubSeq(s, i + Len(sep), Len(s)), sep)

-----------------------------------------------------------------------------
(* Definitions *)

\* posRegex "\[(\w+)": does it match s at index i
PosMatchAt(s, i) == i <= Len(s) /\ s[i] = 91 /\ WordRun(s, i + 1) > 0

\* posRegex.indexIn (def, 0) and cap (1): the tag after the first "[", or the
\* empty string when the expression does not match
posOf(def) ==
    IF \E i \in 1..Len(def) : PosMatchAt(def, i)
    THEN LET i == CHOOSE k \in 1..Len(def) :
                      PosMatchAt(def, k) /\ \A j \in 1..(k - 1) : ~PosMatchAt(def, j)
         IN  SubSeq(def, i + 1, i + WordRun(def, i + 1))
    ELSE <<>>

\* an insertion that keeps the entries in the order they are inserted in
MultimapAppend(mm, entry) == Append(mm, entry)

\* multimap::insert: entries are kept in key order, an equal key goes after
\* the entries that already have it
RECURSIVE MultimapInsert(_, _)
MultimapInsert(mm, entry) ==
    IF mm = <<>> THEN <<entry>>
    ELSE IF LexLess(entry[1], Head(mm)[1]) THEN <<entry>> \o mm
    ELSE <<Head(mm)>> \o MultimapInsert(Tail(mm), entry)

\* the foreach of addDefinition: one multimap entry per sense
RECURSIVE BuildDefMap(_, _)
BuildDefMap(defs, defMap) ==
    IF defs = <<>> THEN defMap
    ELSE BuildDefMap(Tail(defs),
                     MultimapInsert(defMap, <<posOf(Head(defs)), Head(defs)>>))

\* WordEngine::addDefinition, on a given table; map::insert keeps an existing entry
addDefinition(table, word, definition) ==
    IF word = <<>> \/ definition = <<>> THEN table
    ELSE IF word \in DOMAIN table THEN table
    ELSE [w \in (DOMAIN table) \cup {word} |->
             IF w = word THEN BuildDefMap(split(definition, <<32, 47, 32>>), <<>>)
             ELSE table[w]]

-----------------------------------------------------------------------------
(* importTextFile *)

\* the lines a text file is made of:
\*   "CAT", " act  x", "CATS", "#AT", " "
TextLines ==
    { <<67, 65, 84>>, <<32, 97, 99, 116, 32, 32, 120>>, <<67, 65, 84, 83>>,
      <<35, 65, 84>>, <<32>> }

RECURSIVE SeqsUpTo(_, _)
SeqsUpTo(S, n) ==
    IF n = 0 THEN {<<>>}
    ELSE LET shorter == SeqsUpTo(S, n - 1) IN
         shorter \cup {Append(q, x) : q \in shorter, x \in S}

TextFiles == SeqsUpTo(TextLines, MaxFileLines)

LexNames == {"OWL", "OWL2"}

\* the body of the read loop of importTextFile with the first token not upper-cased
ImportLineNoUpper(rawLine, loadDefinitions, st) ==
    LET line == simplified(rawLine) IN
    IF Len(line) = 0 \/ line[1] = 35 THEN st
    ELSE
        LET word == sectionFirst(line)
            alpha == getAlphagram(word)
        IN [graph |-> addWord(st.graph, word),
            map |-> IF ~containsWord(st.graph, word)
                    THEN MapPut(st.map, alpha, MapValue(st.map, alpha) + 1)
                    ELSE st.map,
            defs |-> IF loadDefinitions
                     THEN addDefinition(st.defs, word, sectionRest(line))
                     ELSE st.defs,
            imported |-> st.imported + 1]

\* the body of the read loop of importTextFile counting a word each time it is read
ImportLineAlwaysCount(rawLine, loadDefinitions, st) ==
    LET line == simplified(rawLine) IN
    IF Len(line) = 0 \/ line[1] = 35 THEN st
    ELSE
        LET word == toUpper(sectionFirst(line))
            alpha == getAlphagram(word)
        IN [graph |-> addWord(st.graph, word),
            map |-> MapPut(st.map, alpha, MapValue(st.map, alpha) + 1),
            defs |-> IF loadDefinitions
                     THEN addDefinition(st.defs, word, sectionRest(line))
                     ELSE st.defs,
            imported |-> st.imported + 1]

\* the body of the read loop of importTextFile: one line read into the engine
\* state st = [graph, map, defs, imported]
ImportLine(rawLine, loadDefinitions, st) ==
    LET line == simplified(rawLine) IN
    IF Len(line) = 0 \/ line[1] = 35 THEN st
    ELSE
        LET word == toUpper(sectionFirst(line))
            alpha == getAlphagram(word)
        IN [graph |-> addWord(st.graph, word),
            map |-> IF ~containsWord(st.graph, word)
                    THEN MapPut(st.map, alpha, MapValue(st.map, alpha) + 1)
                    ELSE st.map,
            defs |-> IF loadDefinitions
                     THEN addDefinition(st.defs, word, sectionRest(line))
                     ELSE st.defs,
            imported |-> st.imported + 1]

\* the read loop of importTextFile
RECURSIVE ImportTextLines(_, _, _)
ImportTextLines(lines, loadDefinitions, st) ==
    IF lines = <<>> THEN st
    ELSE ImportTextLines(Tail(lines), loadDefinitions,
                         ImportLine(Head(lines), loadDefinitions, st))

\* the words a text file holds: the first token, upper-cased, of each line
\* that is neither blank nor a comment
FileWords(file) ==
    { toUpper(sectionFirst(simplified(file[i]))) :
        i \in { k \in 1..Len(file) :
                  /\ simplified(file[k]) # <<>>
                  /\ simplified(file[k])[1] # 35 } }

\* WordEngine::importTextFile; opened is whether the file could be opened
importTextFile(file, lexName, loadDefinitions, opened) ==
    IF ~opened
    THEN /\ lastOp' = [op |-> "importTextFile", words |-> {}, ret |-> 0]
         /\ UNCHANGED <<crosswordGameForm, definitionsThread, graph, reverseGraph, numAnagramsMap, lexiconName,
                        definitions, stems, stemAlphagrams, call, readWords>>
    ELSE LET st == ImportTextLines(file, loadDefinitions,
                       [graph |-> graph, map |-> numAnagramsMap,
                        defs |-> definitions, imported |-> 0])
         IN /\ graph' = st.graph
            /\ numAnagramsMap' = st.map
            /\ definitions' = st.defs
            /\ lexiconName' = lexName
            /\ readWords' = readWords \cup FileWords(file)
            /\ UNCHANGED <<crosswordGameForm, definitionsThread, reverseGraph, stems, stemAlphagrams, call>>
            /\ lastOp' = [op |-> "importTextFile", words |-> FileWords(file),
                         ret |-> st.imported]

-----------------------------------------------------------------------------
(* The engine after construction *)

Init ==
    /\ graph = {}
    /\ reverseGraph = {}
    /\ numAnagramsMap = <<>>
    /\ lexiconName = ""
    /\ definitions = <<>>
    /\ stems = <<>>
    /\ stemAlphagrams = <<>>
    /\ call = [state |-> "idle"]
    /\ definitionsThread = [running |-> FALSE, filename |-> <<>>, definitions |-> <<>>,
                            connections |-> 0, loaded |-> 0]
    /\ crosswordGameForm = [iscThread |-> 0, isRunning |-> FALSE, connections |-> 0,
                            connectButton |-> TRUE, disconnectButton |-> FALSE,
                            inputLine |-> <<>>, messages |-> 0,
                            crashed |-> FALSE]
    /\ readWords = {}
    /\ lastOp = [op |-> "none"]

-----------------------------------------------------------------------------
(* Text imports alone, from an empty engine *)

TextImport ==
    \E file \in TextFiles, lexName \in LexNames, loadDefinitions \in BOOLEAN,
       opened \in BOOLEAN :
        importTextFile(file, lexName, loadDefinitions, opened)

NextText == TextImport

SpecText == Init /\ [][NextText]_vars

\* C1: every word importTextFile has read (the first token of a line that is
\* neither blank nor a comment, upper-cased) is acceptable right after the import
\* and after every later importTextFile, whether or not it holds the word again
C1_ImportedWordsStayAcceptable ==
    \A w \in readWords : isAcceptable(w)

\* a second import has returned, of a file that holds one word twice, while an
\* earlier import read a word this file does not hold
C1_Witness ==
    /\ lastOp.op = "importTextFile"
    /\ lastOp.ret = 2
    /\ Cardinality(lastOp.words) = 1
    /\ \E w \in readWords : w \notin lastOp.words /\ isAcceptable(w)

\* the words a query may ask about: "CAT", "ACT", "CATS", "AT", "TA", "SAT"
QueryWords ==
    { <<67, 65, 84>>, <<65, 67, 84>>, <<67, 65, 84, 83>>, <<65, 84>>, <<84, 65>>,
      <<83, 65, 84>> }

\* C2: after any sequence of text imports into an empty engine, numAnagrams(w)
\* is the number of distinct imported words that have the alphagram of w
C2_NumAnagramsCountsDistinctWords ==
    \A w \in QueryWords :
        numAnagrams(w) =
            Cardinality({x \in readWords : getAlphagram(x) = getAlphagram(w)})

\* CAT, CATS and ACT are imported, CAT more than once, and numAnagrams("CAT") = 2
C2_Witness ==
    /\ readWords = {<<67, 65, 84>>, <<67, 65, 84, 83>>, <<65, 67, 84>>}
    /\ lastOp.op = "importTextFile"
    /\ lastOp.words = {<<67, 65, 84>>}
    /\ lastOp.ret = 2
    /\ numAnagrams(<<67, 65, 84>>) = 2

-----------------------------------------------------------------------------
(* Search conditions *)

\* SearchCondition: type, negated, stringValue, minValue, maxValue
Cond(type, negated, stringValue, minValue, maxValue) ==
    [type |-> type, negated |-> negated, stringValue |-> stringValue,
     minValue |-> minValue, maxValue |-> maxValue]

InWordList(negated, words) == Cond("InWordList", negated, words, 0, 0)

NumAnagramsCond(lo, hi) == Cond("NumAnagrams", FALSE, <<>>, lo, hi)

ProbabilityOrder(lo, hi) == Cond("ProbabilityOrder", FALSE, <<>>, lo, hi)

BelongToGroup(negated, name) == Cond("BelongToGroup", negated, name, 0, 0)

PrefixCond(negated, text) == Cond("Prefix", negated, text, 0, 0)

SuffixCond(negated, text) == Cond("Suffix", negated, text, 0, 0)

PatternMatch(pattern) == Cond("PatternMatch", FALSE, pattern, 0, 0)

\* SearchSpec: conditions and conjunction
SearchSpec(conditions, conjunction) ==
    [conditions |-> conditions, conjunction |-> conjunction]

\* the names of the search sets: "Hook Words", "Front Hooks", "Back Hooks",
\* "Type I Sevens", "Type I Eights", "Eights From Seven-Letter Stems",
\* "New in OWL2"
HookWordsName == <<72, 111, 111, 107, 32, 87, 111, 114, 100, 115>>

FrontHooksName == <<70, 114, 111, 110, 116, 32, 72, 111, 111, 107, 115>>

BackHooksName == <<66, 97, 99, 107, 32, 72, 111, 111, 107, 115>>

TypeOneSevensName == <<84, 121, 112, 101, 32, 73, 32, 83, 101, 118, 101, 110, 115>>

TypeOneEightsName == <<84, 121, 112, 101, 32, 73, 32, 69, 105, 103, 104, 116, 115>>

EightsFromSevenLetterStemsName == <<69, 105, 103, 104, 116, 115, 32, 70, 114, 111, 109, 32, 83, 101, 118, 101, 110, 45, 76, 101, 116, 116, 101, 114, 32, 83, 116, 101, 109, 115>>

NewInOwl2Name == <<78, 101, 119, 32, 105, 110, 32, 79, 87, 76, 50>>

\* Auxil::stringToSearchSet
stringToSearchSet(name) ==
    IF name = HookWordsName THEN "SetHookWords"
    ELSE IF name = FrontHooksName THEN "SetFrontHooks"
    ELSE IF name = BackHooksName THEN "SetBackHooks"
    ELSE IF name = TypeOneSevensName THEN "SetTypeOneSevens"
    ELSE IF name = TypeOneEightsName THEN "SetTypeOneEights"
    ELSE IF name = EightsFromSevenLetterStemsName THEN "SetEightsFromSevenLetterStems"
    ELSE IF name = NewInOwl2Name THEN "SetNewInOwl2"
    ELSE "UnknownSearchSet"

-----------------------------------------------------------------------------
(* isSetMember *)

\* the two parts of the alphagram put together with no letter left out
DropNoLetter(agram, i) == left(agram, i) \o right(agram, Len(agram) - i)

\* the alphagram with the letter at index i (0-based) left out:
\* agram.left (i) + agram.right (agram.length() - i - 1)
DropLetter(agram, i) == left(agram, i) \o right(agram, Len(agram) - i - 1)

\* the lookup loop of SetTypeOneSevens and SetEightsFromSevenLetterStems
OneLetterOverStem(word) ==
    LET len == Len(word) - 1 IN
    IF len \notin DOMAIN stemAlphagrams THEN FALSE
    ELSE LET agram == getAlphagram(word) IN
         \E i \in 0..(Len(agram) - 1) : DropLetter(agram, i) \in stemAlphagrams[len]

\* the alignment loop counting a letter of the word as missing only when it
\* is less than the letter of the stem it is compared with
RECURSIVE MissingLesserLetters(_, _, _, _, _)
MissingLesserLetters(agram, setAlphagram, i, saIndex, missing) ==
    IF i < Len(agram) /\ saIndex < Len(setAlphagram)
    THEN LET hit == agram[i + 1] = setAlphagram[saIndex + 1]
             sa == IF hit THEN saIndex + 1 ELSE saIndex
             mi == IF agram[i + 1] < setAlphagram[saIndex + 1]
                   THEN missing + 1 ELSE missing
         IN IF mi > 2 THEN mi
            ELSE MissingLesserLetters(agram, setAlphagram, i + 1, sa, mi)
    ELSE missing

\* the alignment loop of SetTypeOneEights: the count of letters of agram passed
\* over before the stem alphagram is used up, the word ends, or three are missing
RECURSIVE MissingLetters(_, _, _, _, _)
MissingLetters(agram, setAlphagram, i, saIndex, missing) ==
    IF i < Len(agram) /\ saIndex < Len(setAlphagram)
    THEN LET hit == agram[i + 1] = setAlphagram[saIndex + 1]
             sa == IF hit THEN saIndex + 1 ELSE saIndex
             mi == IF hit THEN missing ELSE missing + 1
         IN IF mi > 2 THEN mi
            ELSE MissingLetters(agram, setAlphagram, i + 1, sa, mi)
    ELSE missing

\* the stem pointer saIndex when the alignment loop of SetTypeOneEights ends
RECURSIVE StemPointer(_, _, _, _, _)
StemPointer(agram, setAlphagram, i, saIndex, missing) ==
    IF i < Len(agram) /\ saIndex < Len(setAlphagram)
    THEN LET hit == agram[i + 1] = setAlphagram[saIndex + 1]
             sa == IF hit THEN saIndex + 1 ELSE saIndex
             mi == IF hit THEN missing ELSE missing + 1
         IN IF mi > 2 THEN sa
            ELSE StemPointer(agram, setAlphagram, i + 1, sa, mi)
    ELSE saIndex

\* WordEngine::isSetMember with the hook groups exchanged: the front hooks
\* test drops the last letter, the back hooks test the first
isSetMemberSwapped(word, ss) ==
    CASE ss = "SetHookWords" ->
            \/ isAcceptable(left(word, Len(word) - 1))
            \/ isAcceptable(right(word, Len(word) - 1))
      [] ss = "SetFrontHooks" -> isAcceptable(left(word, Len(word) - 1))
      [] ss = "SetBackHooks" -> isAcceptable(right(word, Len(word) - 1))
      [] OTHER -> FALSE

\* WordEngine::isSetMember without the test of the length of a type-one seven
isSetMemberOfAnyLength(word, ss) ==
    CASE ss = "SetTypeOneSevens" -> OneLetterOverStem(word)
      [] OTHER -> FALSE

\* WordEngine::isSetMember
isSetMember(word, ss) ==
    CASE ss = "SetHookWords" ->
            \/ isAcceptable(left(word, Len(word) - 1))
            \/ isAcceptable(right(word, Len(word) - 1))
      [] ss = "SetFrontHooks" -> isAcceptable(right(word, Len(word) - 1))
      [] ss = "SetBackHooks" -> isAcceptable(left(word, Len(word) - 1))
      [] ss = "SetTypeOneSevens" ->
            IF Len(word) # 7 THEN FALSE ELSE OneLetterOverStem(word)
      [] ss = "SetTypeOneEights" ->
            IF Len(word) # 8 THEN FALSE
            ELSE IF (Len(word) - 2) \notin DOMAIN stemAlphagrams THEN FALSE
            ELSE \E sa \in stemAlphagrams[Len(word) - 2] :
                     MissingLetters(getAlphagram(word), sa, 0, 0, 0) <= 2
      [] ss = "SetEightsFromSevenLetterStems" ->
            IF Len(word) # 8 THEN FALSE ELSE OneLetterOverStem(word)
      [] OTHER -> FALSE

-----------------------------------------------------------------------------
(* matchesConditions *)

\* QRegExp ("\\b" + word + "\\b") matches text at index i: the word stands there
\* with a word boundary (a \w character on one side only) at both ends
WholeWordAt(text, word, i) ==
    /\ word # <<>>
    /\ OccursAt(text, word, i)
    /\ IsWordChar(word[1]) # (i > 1 /\ IsWordChar(text[i - 1]))
    /\ IsWordChar(word[Len(word)]) #
           (i + Len(word) <= Len(text) /\ IsWordChar(text[i + Len(word)]))

\* condition.stringValue.contains (QRegExp ("\\b" + wordUpper + "\\b"))
ContainsWholeWord(text, word) ==
    \E i \in 1..Len(text) : WholeWordAt(text, word, i)

\* a != b, the exclusive or of the code's "^"
Xor(a, b) == a # b

\* one case of the switch of matchesConditions: TRUE when the condition
\* makes matchesConditions return false
ConditionFails(wordUpper, condition) ==
    CASE condition.type = "Prefix" ->
            Xor(~isAcceptable(condition.stringValue \o wordUpper), condition.negated)
      [] condition.type = "Suffix" ->
            Xor(~isAcceptable(wordUpper \o condition.stringValue), condition.negated)
      [] condition.type = "BelongToGroup" ->
            LET searchSet == stringToSearchSet(condition.stringValue) IN
            IF searchSet = "UnknownSearchSet" THEN FALSE
            ELSE Xor(~isSetMember(wordUpper, searchSet), condition.negated)
      [] condition.type = "InWordList" ->
            Xor(~ContainsWholeWord(condition.stringValue, wordUpper),
                condition.negated)
      [] condition.type = "NumAnagrams" ->
            LET num == numAnagrams(wordUpper) IN
            (num < condition.minValue) \/ (num > condition.maxValue)
      [] OTHER -> FALSE

\* WordEngine::matchesConditions
matchesConditions(word, conditions) ==
    \A i \in 1..Len(conditions) : ~ConditionFails(toUpper(word), conditions[i])

-----------------------------------------------------------------------------
(* nonGraphSearch *)

MAX_ANAGRAMS == 65535

\* the least string of a non-empty set, in QString order
LeastOf(S) == CHOOSE x \in S : \A y \in S : x = y \/ LexLess(x, y)

\* the iteration of a std::set<QString>: its members in ascending order
RECURSIVE SetToList(_)
SetToList(S) ==
    IF S = {} THEN <<>>
    ELSE <<LeastOf(S)>> \o SetToList(S \ {LeastOf(S)})

\* the members of a list
ListToSet(l) == {l[i] : i \in 1..Len(l)}

\* the acceptable words of the payload of an InWordList condition
AcceptableWordsOf(stringValue) ==
    {w \in ListToSet(split(stringValue, <<32>>)) : isAcceptable(w)}

\* the loop of nonGraphSearch over the conditions left; st holds finalWordSet,
\* conditionNum, minAnagrams, maxAnagrams and whether the loop has returned early
RECURSIVE NonGraphLoop(_, _, _)
NonGraphLoop(conditions, conjunction, st) ==
    IF conditions = <<>> \/ st.returned THEN st
    ELSE
        LET condition == Head(conditions)
            isNum == condition.type = "NumAnagrams"
            outOfRange == /\ isNum
                          /\ \/ condition.minValue > st.maxAnagrams
                             \/ condition.maxValue < st.minAnagrams
            minA == IF isNum THEN condition.minValue ELSE st.minAnagrams
            maxA == IF isNum THEN condition.maxValue ELSE st.maxAnagrams
            wordSet == AcceptableWordsOf(condition.stringValue)
            conjunctionSet == wordSet \cap st.finalWordSet
        IN
        IF outOfRange THEN [st EXCEPT !.returned = TRUE]
        ELSE IF condition.type # "InWordList"
        THEN NonGraphLoop(Tail(conditions), conjunction,
                 [st EXCEPT !.minAnagrams = minA, !.maxAnagrams = maxA])
        ELSE IF st.conditionNum = 0
        THEN NonGraphLoop(Tail(conditions), conjunction,
                 [st EXCEPT !.finalWordSet = wordSet, !.conditionNum = 1])
        ELSE IF conjunction
        THEN IF conjunctionSet = {} THEN [st EXCEPT !.returned = TRUE]
             ELSE NonGraphLoop(Tail(conditions), conjunction,
                      [st EXCEPT !.finalWordSet = conjunctionSet,
                                 !.conditionNum = @ + 1])
        ELSE NonGraphLoop(Tail(conditions), conjunction,
                 [st EXCEPT !.finalWordSet = @ \cup wordSet,
                            !.conditionNum = @ + 1])

\* nonGraphSearch with the conjunction flag of the spec ignored: the word
\* sets are always intersected
nonGraphSearchAlwaysIntersects(spec) ==
    LET st == NonGraphLoop(spec.conditions, TRUE,
                  [finalWordSet |-> {}, conditionNum |-> 0, minAnagrams |-> 0,
                   maxAnagrams |-> MAX_ANAGRAMS, returned |-> FALSE])
        limited ==
            IF st.finalWordSet # {} /\
               (st.minAnagrams > 0 \/ st.maxAnagrams < MAX_ANAGRAMS)
            THEN {w \in st.finalWordSet :
                     /\ MapValue(numAnagramsMap, getAlphagram(w)) >= st.minAnagrams
                     /\ MapValue(numAnagramsMap, getAlphagram(w)) <= st.maxAnagrams}
            ELSE st.finalWordSet
    IN IF st.returned THEN <<>> ELSE SetToList(limited)

\* nonGraphSearch limiting the words only when a minimum above 0 was asked for
nonGraphSearchMinOnly(spec) ==
    LET st == NonGraphLoop(spec.conditions, spec.conjunction,
                  [finalWordSet |-> {}, conditionNum |-> 0, minAnagrams |-> 0,
                   maxAnagrams |-> MAX_ANAGRAMS, returned |-> FALSE])
        limited ==
            IF st.finalWordSet # {} /\ st.minAnagrams > 0
            THEN {w \in st.finalWordSet :
                     /\ MapValue(numAnagramsMap, getAlphagram(w)) >= st.minAnagrams
                     /\ MapValue(numAnagramsMap, getAlphagram(w)) <= st.maxAnagrams}
            ELSE st.finalWordSet
    IN IF st.returned THEN <<>> ELSE SetToList(limited)

\* nonGraphSearch returning the acceptable words of the payloads as they
\* stand there, one payload after the other
RECURSIVE nonGraphSearchInPayloadOrder(_)
nonGraphSearchInPayloadOrder(spec) ==
    IF spec.conditions = <<>> THEN <<>>
    ELSE (IF Head(spec.conditions).type = "InWordList"
          THEN SelectSeq(split(Head(spec.conditions).stringValue, <<32>>),
                         LAMBDA w : isAcceptable(w))
          ELSE <<>>) \o
         nonGraphSearchInPayloadOrder([spec EXCEPT !.conditions = Tail(@)])

\* WordEngine::nonGraphSearch
nonGraphSearch(spec) ==
    LET st == NonGraphLoop(spec.conditions, spec.conjunction,
                  [finalWordSet |-> {}, conditionNum |-> 0, minAnagrams |-> 0,
                   maxAnagrams |-> MAX_ANAGRAMS, returned |-> FALSE])
        limited ==
            IF st.finalWordSet # {} /\
               (st.minAnagrams > 0 \/ st.maxAnagrams < MAX_ANAGRAMS)
            THEN {w \in st.finalWordSet :
                     /\ MapValue(numAnagramsMap, getAlphagram(w)) >= st.minAnagrams
                     /\ MapValue(numAnagramsMap, getAlphagram(w)) <= st.maxAnagrams}
            ELSE st.finalWordSet
    IN IF st.returned THEN <<>> ELSE SetToList(limited)

-----------------------------------------------------------------------------
(* Probability order *)

\* the tiles of each letter A..Z in the bag of LetterBag
BagCount(c) ==
    IF IsUpperChar(c)
    THEN <<9, 2, 2, 4, 12, 2, 3, 2, 9, 1, 1, 4, 2, 6, 8, 2, 1, 6, 4, 6, 4, 2, 2, 1,
           2, 1>>[c - 64]
    ELSE 0

RECURSIVE Binomial(_, _)
Binomial(n, k) ==
    IF k = 0 THEN 1
    ELSE IF k > n THEN 0
    ELSE (Binomial(n - 1, k - 1) * n) \div k

\* how many times the character c stands in w
Occurrences(w, c) == Cardinality({i \in 1..Len(w) : w[i] = c})

RECURSIVE ProductOver(_, _)
ProductOver(letters, w) ==
    IF letters = {} THEN 1
    ELSE LET c == CHOOSE x \in letters : TRUE IN
         Binomial(BagCount(c), Occurrences(w, c)) * ProductOver(letters \ {c}, w)

\* LetterBag::getNumCombinations: the ways to draw the letters of the word
\* from the bag
getNumCombinations(w) == ProductOver(ListToSet(w), w)

\* the decimal digits of n >= 0
RECURSIVE Digits(_)
Digits(n) ==
    IF n < 10 THEN <<48 + n>> ELSE Digits(n \div 10) \o <<48 + (n % 10)>>

\* zeroes in front of the digits up to a width
RECURSIVE ZeroPad(_, _)
ZeroPad(d, width) == IF Len(d) >= width THEN d ELSE ZeroPad(<<48>> \o d, width)

\* sprintf ("%09.0f", v) for a whole number v: nine characters at least,
\* zero-padded, the sign of a negative number first
FormatRadix(v) ==
    IF v >= 0 THEN ZeroPad(Digits(v), 9) ELSE <<45>> \o ZeroPad(Digits(-v), 8)

\* the key of a word in probMap, with the radix reversed: the less probable
\* word gets the smaller key
RadixKeyReversed(word) ==
    FormatRadix(getNumCombinations(toUpper(word))) \o toUpper(word)

\* the key of a word in probMap
RadixKey(word) ==
    FormatRadix(999999999 - getNumCombinations(toUpper(word))) \o toUpper(word)

\* the index of the last word of the list that has the key
LastWithKey(wordList, key) ==
    CHOOSE i \in 1..Len(wordList) :
        /\ RadixKey(wordList[i]) = key
        /\ \A j \in (i + 1)..Len(wordList) : RadixKey(wordList[j]) # key

\* probMap.values(): the words in the order of their keys; QMap::insert
\* replaces the value of a key that is already there
ProbMapValues(wordList) ==
    LET keys == SetToList({RadixKey(wordList[i]) : i \in 1..Len(wordList)}) IN
    [k \in 1..Len(keys) |-> wordList[LastWithKey(wordList, keys[k])]]

\* QList::mid (pos, length), pos 0-based: a negative length, or one that runs
\* past the end, means up to the end
mid(l, pos, length) ==
    LET n == IF length < 0 \/ pos + length > Len(l) THEN Len(l) - pos ELSE length
    IN SubSeq(l, pos + 1, pos + n)

\* the probability-order block of search taking one word too many
ProbabilityRangeOffByOne(wordList, probRangeMin, probRangeMax) ==
    IF probRangeMin > Len(wordList) THEN <<>>
    ELSE LET lo == IF probRangeMin <= 0 THEN 1 ELSE probRangeMin IN
         mid(ProbMapValues(wordList), lo - 1, probRangeMax - lo + 2)

\* the probability-order block of search (probRangeMax > 0)
ProbabilityRange(wordList, probRangeMin, probRangeMax) ==
    IF probRangeMin > Len(wordList) THEN <<>>
    ELSE LET lo == IF probRangeMin <= 0 THEN 1 ELSE probRangeMin IN
         mid(ProbMapValues(wordList), lo - 1, probRangeMax - lo + 1)

-----------------------------------------------------------------------------
(* search *)

\* the words of north-american/owl2-new-words.txt: "CATS", "AT"
NewInOwl2File == << <<67, 65, 84, 83>>, <<65, 84>> >>

RECURSIVE Join(_, _)
Join(l, sep) ==
    IF l = <<>> THEN <<>>
    ELSE IF Len(l) = 1 THEN l[1]
    ELSE l[1] \o sep \o Join(Tail(l), sep)

\* WordEngine::getNewInOwl2String
getNewInOwl2String == Join(NewInOwl2File, <<32>>)

\* SearchSpec::optimize
optimize(spec) == spec

\* does the pattern, with "?" for any one letter, match the word
MatchesPattern(word, pattern) ==
    /\ Len(word) = Len(pattern)
    /\ \A i \in 1..Len(word) : pattern[i] = 63 \/ pattern[i] = word[i]

\* WordGraph::search: the accepted words that match the conditions the graph
\* evaluates, in ascending order
graphSearch(g, spec) ==
    SetToList({w \in g :
        \A i \in 1..Len(spec.conditions) :
            spec.conditions[i].type = "PatternMatch"
                => MatchesPattern(w, spec.conditions[i].stringValue)})

\* the classification loop of search over the conditions from index i on;
\* acc holds the rewritten conditions and the flags
RECURSIVE Classify(_, _)
Classify(i, acc) ==
    IF i > Len(acc.conditions) THEN acc
    ELSE
        LET condition == acc.conditions[i] IN
        CASE condition.type = "InWordList" ->
                Classify(i + 1,
                    [acc EXCEPT !.wordListCondition = TRUE,
                                !.mustSearchGraph = @ \/ condition.negated])
          [] condition.type = "NumAnagrams" -> Classify(i + 1, acc)
          [] condition.type = "BelongToGroup" ->
                IF stringToSearchSet(condition.stringValue) = "SetNewInOwl2"
                THEN Classify(i + 1,
                         [acc EXCEPT
                             !.conditions[i] =
                                 [condition EXCEPT
                                     !.type = "InWordList",
                                     !.stringValue = getNewInOwl2String],
                             !.wordListCondition = TRUE])
                ELSE Classify(i + 1, [acc EXCEPT !.mustSearchGraph = TRUE])
          [] condition.type = "ProbabilityOrder" ->
                Classify(i + 1,
                    [acc EXCEPT !.probRangeMin = condition.minValue,
                                !.probRangeMax = condition.maxValue])
          [] OTHER -> Classify(i + 1, [acc EXCEPT !.mustSearchGraph = TRUE])

\* the state of search after its classification loop
Classified(spec) ==
    Classify(1, [conditions |-> optimize(spec).conditions,
                 mustSearchGraph |-> FALSE, wordListCondition |-> FALSE,
                 probRangeMin |-> 0, probRangeMax |-> 0])

\* does search answer the spec with nonGraphSearch
TakesNonGraphPath(spec) ==
    Classified(spec).wordListCondition /\ ~Classified(spec).mustSearchGraph

\* search from "QStringList wordList = graph.search (optimizedSpec)" on
searchGraphPath(optimizedSpec, probRangeMin, probRangeMax, allCaps) ==
    LET found == graphSearch(graph, optimizedSpec)
        kept == SelectSeq(found,
                    LAMBDA w : matchesConditions(w, optimizedSpec.conditions))
        ranged == IF probRangeMax > 0
                  THEN ProbabilityRange(kept, probRangeMin, probRangeMax)
                  ELSE kept
    IN IF allCaps THEN [i \in 1..Len(ranged) |-> toUpper(ranged[i])]
       ELSE ranged

\* search running graph.search whatever the conditions are
searchRunAlwaysGraph(spec, allCaps) ==
    LET c == Classified(spec)
        optimizedSpec == [conditions |-> c.conditions,
                          conjunction |-> optimize(spec).conjunction]
    IN [result |-> searchGraphPath(optimizedSpec, c.probRangeMin, c.probRangeMax,
                                   allCaps),
        graphSearched |-> TRUE]

\* search answering every spec made of word lists alone with nonGraphSearch,
\* the negated lists too
searchRunListsBySetAlgebra(spec, allCaps) ==
    LET c == Classified(spec)
        optimizedSpec == [conditions |-> c.conditions,
                          conjunction |-> optimize(spec).conjunction]
    IN IF c.wordListCondition /\
          (~c.mustSearchGraph \/
               \A i \in 1..Len(c.conditions) : c.conditions[i].type = "InWordList")
       THEN [result |-> nonGraphSearch(optimizedSpec), graphSearched |-> FALSE]
       ELSE [result |-> searchGraphPath(optimizedSpec, c.probRangeMin,
                                        c.probRangeMax, allCaps),
             graphSearched |-> TRUE]

\* a run of WordEngine::search: what it returns, and whether it has called
\* graph.search
searchRun(spec, allCaps) ==
    LET c == Classified(spec)
        optimizedSpec == [conditions |-> c.conditions,
                          conjunction |-> optimize(spec).conjunction]
    IN IF c.wordListCondition /\ ~c.mustSearchGraph
       THEN [result |-> nonGraphSearch(optimizedSpec), graphSearched |-> FALSE]
       ELSE [result |-> searchGraphPath(optimizedSpec, c.probRangeMin,
                                        c.probRangeMax, allCaps),
             graphSearched |-> TRUE]

\* WordEngine::search
search(spec, allCaps) == searchRun(spec, allCaps).result

\* WordEngine::search as an operation: the engine is left as it is
Search(spec, allCaps) ==
    /\ \E run \in {searchRun(spec, allCaps)} :
           lastOp' = [op |-> "search", spec |-> spec, allCaps |-> allCaps,
                      result |-> run.result, graphSearched |-> run.graphSearched]
    /\ UNCHANGED <<crosswordGameForm, definitionsThread, graph, reverseGraph, numAnagramsMap, lexiconName, definitions,
                   stems, stemAlphagrams, call, readWords>>

-----------------------------------------------------------------------------
(* importDawgFile and importNumAnagrams *)

\* WordGraph::importDawgFile: the graph named by reverse holds the words of the
\* file afterwards; a file that cannot be loaded changes nothing
graphImportDawgFile(g, rg, fileWords, reverse, ok) ==
    IF ~ok THEN [graph |-> g, reverseGraph |-> rg]
    ELSE IF reverse THEN [graph |-> g, reverseGraph |-> fileWords]
    ELSE [graph |-> fileWords, reverseGraph |-> rg]

\* importDawgFile naming the lexicon after a reverse import too
importDawgFileNamesReverse(fileWords, lexName, reverse, ok) ==
    LET loaded == graphImportDawgFile(graph, reverseGraph, fileWords, reverse, ok) IN
    /\ graph' = loaded.graph
    /\ reverseGraph' = loaded.reverseGraph
    /\ lexiconName' = IF ok THEN lexName ELSE lexiconName
    /\ lastOp' = [op |-> "importDawgFile", lexName |-> lexName,
                  reverse |-> reverse, ret |-> ok]
    /\ UNCHANGED <<crosswordGameForm, definitionsThread, numAnagramsMap, definitions, stems, stemAlphagrams, call, readWords>>

\* WordEngine::importDawgFile; ok is the result of the graph's import
importDawgFile(fileWords, lexName, reverse, ok) ==
    LET loaded == graphImportDawgFile(graph, reverseGraph, fileWords, reverse, ok) IN
    /\ graph' = loaded.graph
    /\ reverseGraph' = loaded.reverseGraph
    /\ lexiconName' = IF ok /\ ~reverse THEN lexName ELSE lexiconName
    /\ lastOp' = [op |-> "importDawgFile", lexName |-> lexName,
                  reverse |-> reverse, ret |-> ok]
    /\ UNCHANGED <<crosswordGameForm, definitionsThread, numAnagramsMap, definitions, stems, stemAlphagrams, call, readWords>>

\* the value of a string of decimal digits, counted upwards or, for a
\* negative number, downwards
RECURSIVE DigitsValue(_, _, _)
DigitsValue(s, acc, negative) ==
    IF s = <<>> THEN acc
    ELSE DigitsValue(Tail(s),
                     IF negative THEN 10 * acc - (Head(s) - 48)
                     ELSE 10 * acc + (Head(s) - 48),
                     negative)

RECURSIVE StripZeroes(_)
StripZeroes(s) ==
    IF Len(s) > 1 /\ Head(s) = 48 THEN StripZeroes(Tail(s)) ELSE s

\* do the digits stand for a number an int holds: at most 2147483647, or
\* 2147483648 behind a minus sign
FitsInt(digits, negative) ==
    LET d == StripZeroes(digits)
        limit == IF negative THEN <<50, 49, 52, 55, 52, 56, 51, 54, 52, 56>>
                 ELSE <<50, 49, 52, 55, 52, 56, 51, 54, 52, 55>>
    IN Len(d) < 10 \/ (Len(d) = 10 /\ ~LexLess(limit, d))

\* QString::toInt: the number a decimal string of an int stands for, 0 for
\* any other string
toInt(s) ==
    LET negative == s # <<>> /\ s[1] = 45
        body == IF s # <<>> /\ (s[1] = 45 \/ s[1] = 43) THEN Tail(s) ELSE s
    IN IF body = <<>> \/ \E i \in 1..Len(body) : ~IsDigitChar(body[i]) THEN 0
       ELSE IF ~FitsInt(body, negative) THEN 0
       ELSE DigitsValue(body, 0, negative)

\* the read loop of importNumAnagrams
RECURSIVE ImportCountLines(_, _)
ImportCountLines(lines, m) ==
    IF lines = <<>> THEN m
    ELSE
        LET line == simplified(Head(lines)) IN
        IF Len(line) = 0 \/ line[1] = 35 THEN ImportCountLines(Tail(lines), m)
        ELSE ImportCountLines(Tail(lines),
                 MapPut(m, toUpper(sectionFirst(line)), toInt(sectionRest(line))))

\* WordEngine::importNumAnagrams; opened is whether the file could be opened
importNumAnagrams(file, opened) ==
    /\ numAnagramsMap' = IF opened THEN ImportCountLines(file, numAnagramsMap)
                         ELSE numAnagramsMap
    /\ lastOp' = [op |-> "importNumAnagrams", opened |-> opened]
    /\ UNCHANGED <<crosswordGameForm, definitionsThread, graph, reverseGraph, lexiconName, definitions, stems,
                   stemAlphagrams, call, readWords>>

-----------------------------------------------------------------------------
(* The engine under every import: text, DAWG and anagram counts *)

\* the lines of a word list: "CAT", "act", "AT"
LexiconLines == { <<67, 65, 84>>, <<97, 99, 116>>, <<65, 84>> }

LexiconFiles == SeqsUpTo(LexiconLines, MaxLexiconFileLines)

\* the word sets of the DAWG files: {CAT}, {ACT, AT}
DawgFiles == { { <<67, 65, 84>> }, { <<65, 67, 84>>, <<65, 84>> } }

\* the lines of an anagram-count file: "ACT 2", "AT x", "#ACT 5"
CountLines == { <<65, 67, 84, 32, 50>>, <<65, 84, 32, 120>>, <<35, 65, 67, 84, 32, 53>> }

CountFiles == SeqsUpTo(CountLines, MaxCountFileLines)

CountsBelowBound ==
    \A a \in DOMAIN numAnagramsMap : numAnagramsMap[a] < MaxAnagramCount

LexiconImport ==
    /\ CountsBelowBound
    /\ \E file \in LexiconFiles, lexName \in LexNames, opened \in BOOLEAN :
           importTextFile(file, lexName, FALSE, opened)

DawgImport ==
    \E fileWords \in DawgFiles, lexName \in LexNames, reverse \in BOOLEAN,
       ok \in BOOLEAN :
        importDawgFile(fileWords, lexName, reverse, ok)

NumAnagramsImport ==
    \E file \in CountFiles, opened \in BOOLEAN : importNumAnagrams(file, opened)

Next == LexiconImport \/ DawgImport \/ NumAnagramsImport

Spec == Init /\ [][Next]_vars

\* C13: importDawgFile sets the lexicon name to lexName when the graph's
\* import succeeds and reverse is false; a failed import and a reverse import
\* leave the name as it was
C13_DawgImportNamesTheLexicon ==
    [][lastOp'.op = "importDawgFile" =>
           IF lastOp'.ret /\ ~lastOp'.reverse
           THEN lexiconName' = lastOp'.lexName
           ELSE lexiconName' = lexiconName]_vars

\* a reverse import of a lexicon called otherwise has succeeded and the
\* engine still has the name an earlier import gave it
C13_Witness ==
    /\ lastOp.op = "importDawgFile"
    /\ lastOp.ret /\ lastOp.reverse
    /\ lexiconName # ""
    /\ lexiconName # lastOp.lexName
    /\ reverseGraph # {}

\* a forward import has failed and the engine still has its earlier name
C13_WitnessFailed ==
    /\ lastOp.op = "importDawgFile"
    /\ ~lastOp.ret /\ ~lastOp.reverse
    /\ lexiconName # ""
    /\ lexiconName # lastOp.lexName

\* a forward import has succeeded and has renamed the engine
C13_WitnessRenamed ==
    /\ lastOp.op = "importDawgFile"
    /\ lastOp.ret /\ ~lastOp.reverse
    /\ lexiconName = "OWL2" /\ lastOp.lexName = "OWL2"

\* C3: under every interleaving of importTextFile, importDawgFile and
\* importNumAnagrams, each entry of numAnagramsMap is the number of distinct
\* words the graph accepts that have the entry's alphagram
C3_EntriesCountAcceptedWords ==
    \A a \in DOMAIN numAnagramsMap :
        numAnagramsMap[a] = Cardinality({w \in graph : getAlphagram(w) = a})

-----------------------------------------------------------------------------
(* Searches over two word lists *)

\* a word list read with no other options
WordListImport ==
    /\ CountsBelowBound
    /\ \E file \in LexiconFiles : importTextFile(file, "OWL", FALSE, TRUE)

\* payloads of InWordList conditions:
\*   "CAT ACT", "ACT AT", "AT  CAT", "CAT CATS AT CAT", "cat"
ListPayloads ==
    { <<67, 65, 84, 32, 65, 67, 84>>, <<65, 67, 84, 32, 65, 84>>,
      <<65, 84, 32, 32, 67, 65, 84>>, <<67, 65, 84, 32, 67, 65, 84, 83, 32, 65, 84, 32, 67, 65, 84>>,
      <<99, 97, 116>> }

SearchTwoLists ==
    \E a \in ListPayloads, b \in ListPayloads, conjunction \in BOOLEAN,
       allCaps \in BOOLEAN :
        Search(SearchSpec(<<InWordList(FALSE, a), InWordList(FALSE, b)>>,
                          conjunction), allCaps)

NextLists == WordListImport \/ SearchTwoLists

SpecLists == Init /\ [][NextLists]_vars

\* the words a payload names: its parts between spaces
PayloadWords(payload) == ListToSet(split(payload, <<32>>)) \ {<<>>}

\* the acceptable words of a payload
AcceptableIn(payload) == {w \in PayloadWords(payload) : w \in graph}

\* a list without a word twice
NoDuplicates(l) == \A i \in 1..Len(l) : \A j \in 1..Len(l) : l[i] = l[j] => i = j

IsTwoListSpec(spec) ==
    /\ Len(spec.conditions) = 2
    /\ \A i \in 1..2 : /\ spec.conditions[i].type = "InWordList"
                       /\ ~spec.conditions[i].negated

\* C4: for two non-negated InWordList conditions A and B, search returns
\* exactly the acceptable words of A that are acceptable words of B when
\* conjunction is true, and the acceptable words of either when it is false
C4_TwoListsIntersectOrUnite ==
    (lastOp.op = "search" /\ IsTwoListSpec(lastOp.spec)) =>
        LET A == AcceptableIn(lastOp.spec.conditions[1].stringValue)
            B == AcceptableIn(lastOp.spec.conditions[2].stringValue)
        IN /\ NoDuplicates(lastOp.result)
           /\ ListToSet(lastOp.result) =
                  IF lastOp.spec.conjunction THEN A \cap B ELSE A \cup B

\* a conjunction of "CAT ACT" and "ACT AT" over a lexicon that accepts all
\* three words has returned ACT alone
C4_Witness ==
    /\ lastOp.op = "search"
    /\ IsTwoListSpec(lastOp.spec)
    /\ lastOp.spec.conjunction
    /\ lastOp.spec.conditions[1].stringValue # lastOp.spec.conditions[2].stringValue
    /\ graph = { <<67, 65, 84>>, <<65, 67, 84>>, <<65, 84>> }
    /\ lastOp.result = << <<65, 67, 84>> >>

\* a disjunction of two different lists has returned more words than either
\* list holds
C4_WitnessUnion ==
    /\ lastOp.op = "search"
    /\ IsTwoListSpec(lastOp.spec)
    /\ ~lastOp.spec.conjunction
    /\ Len(lastOp.result) = 3

\* C25: the list the set-algebra path returns is strictly ascending in the
\* order of the words, so that no word is in it twice, whether or not the word
\* is several times in a payload or in both payloads, and every word of it is
\* acceptable
C25_SetAlgebraResultIsAscending ==
    (lastOp.op = "search" /\ ~lastOp.graphSearched) =>
        /\ \A i \in 1..(Len(lastOp.result) - 1) :
               LexLess(lastOp.result[i], lastOp.result[i + 1])
        /\ NoDuplicates(lastOp.result)
        /\ \A i \in 1..Len(lastOp.result) : lastOp.result[i] \in graph

\* the union of "CAT CATS AT CAT" and "CAT ACT" over a lexicon that accepts
\* ACT, AT and CAT has returned the three words in their order
C25_Witness ==
    /\ lastOp.op = "search" /\ ~lastOp.graphSearched
    /\ ~lastOp.spec.conjunction
    /\ lastOp.spec.conditions[1].stringValue = <<67, 65, 84, 32, 67, 65, 84, 83, 32, 65, 84, 32, 67, 65, 84>>
    /\ lastOp.spec.conditions[2].stringValue = <<67, 65, 84, 32, 65, 67, 84>>
    /\ lastOp.result = << <<65, 67, 84>>, <<65, 84>>, <<67, 65, 84>> >>

-----------------------------------------------------------------------------
(* Searches with a NumAnagrams condition *)

\* the lines of the anagram-count files: "ACT 0", "AT 65536"
AnagramCountLines == { <<65, 67, 84, 32, 48>>, <<65, 84, 32, 54, 53, 53, 51, 54>> }

AnagramCountFiles == SeqsUpTo(AnagramCountLines, MaxCountFileLines)

AnagramCountImport ==
    \E file \in AnagramCountFiles : importNumAnagrams(file, TRUE)

\* the counts a NumAnagrams condition asks for
AskedCounts == {0, 1, 2, MAX_ANAGRAMS, MAX_ANAGRAMS + 1}

\* payloads of the InWordList condition: "CAT ACT AT", "AT"
AnagramPayloads == { <<67, 65, 84, 32, 65, 67, 84, 32, 65, 84>>, <<65, 84>> }

\* the conditions a NumAnagrams condition is combined with: none, a word
\* list, the prefix "C"
OtherConditions ==
    { <<>>, <<PrefixCond(FALSE, <<67>>)>> } \cup
    { <<InWordList(FALSE, p)>> : p \in AnagramPayloads }

SearchNumAnagrams ==
    \E k \in AskedCounts, others \in OtherConditions, first \in BOOLEAN,
       allCaps \in BOOLEAN :
        Search(SearchSpec(IF first THEN <<NumAnagramsCond(k, k)>> \o others
                          ELSE others \o <<NumAnagramsCond(k, k)>>, TRUE),
               allCaps)

NextAnagrams == WordListImport \/ AnagramCountImport \/ SearchNumAnagrams

SpecAnagrams == Init /\ [][NextAnagrams]_vars

\* does the acceptable word w satisfy a condition other than NumAnagrams
Satisfies(w, condition) ==
    CASE condition.type = "InWordList" ->
            (w \in PayloadWords(condition.stringValue)) # condition.negated
      [] condition.type = "Prefix" ->
            ((condition.stringValue \o w) \in graph) # condition.negated
      [] condition.type = "Suffix" ->
            ((w \o condition.stringValue) \in graph) # condition.negated
      [] OTHER -> TRUE

\* the candidate words of a spec: the acceptable words its conditions other
\* than NumAnagrams and ProbabilityOrder select
Candidates(spec) ==
    {w \in graph : \A i \in 1..Len(spec.conditions) :
                       Satisfies(w, spec.conditions[i])}

\* the indices of the NumAnagrams conditions of a spec
NumAnagramsAt(spec) ==
    {i \in 1..Len(spec.conditions) : spec.conditions[i].type = "NumAnagrams"}

\* the spec has one NumAnagrams condition, and it asks for one count k >= 0
AsksOneCount(spec) ==
    /\ Cardinality(NumAnagramsAt(spec)) = 1
    /\ \A i \in NumAnagramsAt(spec) :
           /\ spec.conditions[i].minValue = spec.conditions[i].maxValue
           /\ spec.conditions[i].minValue >= 0

AskedCount(spec) ==
    spec.conditions[CHOOSE i \in NumAnagramsAt(spec) : TRUE].minValue

\* the number of accepted entries of the alphagram of w, as numAnagramsMap has it
CountOf(w) == MapValue(numAnagramsMap, getAlphagram(w))

\* C5 as claimed: a NumAnagrams condition with min = max = k returns exactly
\* the candidate words whose anagram count is k, for every k >= 0
C5_ExactCountForEveryK ==
    (lastOp.op = "search" /\ AsksOneCount(lastOp.spec)) =>
        ListToSet(lastOp.result) =
            {w \in Candidates(lastOp.spec) : CountOf(w) = AskedCount(lastOp.spec)}

\* C5 as the code has it: a NumAnagrams condition with min = max = k returns
\* exactly the candidate words whose anagram count is k, for every k from 0 to
\* MAX_ANAGRAMS; nonGraphSearch returns nothing for a k above MAX_ANAGRAMS
C5_ExactCountUpToMaxAnagrams ==
    (lastOp.op = "search" /\ AsksOneCount(lastOp.spec)) =>
        /\ AskedCount(lastOp.spec) <= MAX_ANAGRAMS =>
               /\ NoDuplicates(lastOp.result)
               /\ ListToSet(lastOp.result) =
                      {w \in Candidates(lastOp.spec) :
                           CountOf(w) = AskedCount(lastOp.spec)}
        /\ (AskedCount(lastOp.spec) > MAX_ANAGRAMS
                /\ TakesNonGraphPath(lastOp.spec)) => lastOp.result = <<>>

\* nonGraphSearch was asked for the words of "CAT ACT AT" with no anagram at
\* all (k = 0) and has returned some of the acceptable ones, not all
C5_Witness ==
    /\ lastOp.op = "search"
    /\ AsksOneCount(lastOp.spec)
    /\ TakesNonGraphPath(lastOp.spec)
    /\ AskedCount(lastOp.spec) = 0
    /\ lastOp.result # <<>>
    /\ ListToSet(lastOp.result) # Candidates(lastOp.spec)

\* the graph path was asked for k = 1 and has kept some candidates, not all
C5_WitnessGraphPath ==
    /\ lastOp.op = "search"
    /\ AsksOneCount(lastOp.spec)
    /\ ~TakesNonGraphPath(lastOp.spec)
    /\ AskedCount(lastOp.spec) = 1
    /\ lastOp.result # <<>>
    /\ ListToSet(lastOp.result) # Candidates(lastOp.spec)

-----------------------------------------------------------------------------
(* Searches with a ProbabilityOrder condition *)

\* the rank ranges [lo, hi] asked for, 1 <= lo <= hi
RankRanges == {r \in (1..MaxRank) \X (1..MaxRank) : r[1] <= r[2]}

\* payloads of the InWordList condition: "CAT ACT AT", "AT CAT"
RankPayloads == { <<67, 65, 84, 32, 65, 67, 84, 32, 65, 84>>, <<65, 84, 32, 67, 65, 84>> }

\* the conditions a ProbabilityOrder condition is combined with: none, the
\* prefix "C", a word list
RankedConditions ==
    { <<>>, <<PrefixCond(TRUE, <<67>>)>> } \cup
    { <<InWordList(FALSE, p)>> : p \in RankPayloads }

SearchProbabilityOrder ==
    \E r \in RankRanges, others \in RankedConditions, allCaps \in BOOLEAN :
        Search(SearchSpec(others \o <<ProbabilityOrder(r[1], r[2])>>, TRUE),
               allCaps)

\* the rank ranges outside RankRanges: a lower bound of 0, or an upper bound
\* below the lower one; the upper bound is positive
ReversedRankRanges ==
    {r \in (0..MaxRank) \X (1..MaxRank) : r[1] = 0 \/ r[2] < r[1]}

\* a search with such a range, alone or with the prefix "C": it runs the graph
SearchReversedRange ==
    \E r \in ReversedRankRanges,
       others \in { <<>>, <<PrefixCond(TRUE, <<67>>)>> }, allCaps \in BOOLEAN :
        Search(SearchSpec(others \o <<ProbabilityOrder(r[1], r[2])>>, TRUE),
               allCaps)

NextProbability == WordListImport \/ SearchProbabilityOrder \/ SearchReversedRange

SpecProbability == Init /\ [][NextProbability]_vars

\* w1 comes before w2 in probability order: more ways to draw it from the
\* bag, or as many and the lesser spelling
RankedBefore(w1, w2) ==
    \/ getNumCombinations(w1) > getNumCombinations(w2)
    \/ /\ getNumCombinations(w1) = getNumCombinations(w2)
       /\ LexLess(w1, w2)

\* the 1-based rank of a candidate among the candidates
RankIn(cands, w) == 1 + Cardinality({x \in cands : RankedBefore(x, w)})

\* the list holds exactly the candidates of the ranks lo..hi, in rank order
IsRankSlice(l, cands, lo, hi) ==
    /\ ListToSet(l) = {w \in cands : RankIn(cands, w) >= lo /\ RankIn(cands, w) <= hi}
    /\ \A i \in 1..Len(l) : \A j \in 1..Len(l) : i < j => RankedBefore(l[i], l[j])

\* the indices of the ProbabilityOrder conditions of a spec
ProbabilityOrderAt(spec) ==
    {i \in 1..Len(spec.conditions) : spec.conditions[i].type = "ProbabilityOrder"}

HasOneRankRange(spec) == Cardinality(ProbabilityOrderAt(spec)) = 1

RankMin(spec) == spec.conditions[CHOOSE i \in ProbabilityOrderAt(spec) : TRUE].minValue

RankMax(spec) == spec.conditions[CHOOSE i \in ProbabilityOrderAt(spec) : TRUE].maxValue

Min(a, b) == IF a <= b THEN a ELSE b

\* C6: with a ProbabilityOrder condition [1, n], n > 0, over c candidates the
\* search returns exactly min(n, c) words, the first of the candidates by rank
\* (more combinations first, ties by spelling); with [c + 1, m] it returns
\* nothing
C6_ProbabilitySlice ==
    (lastOp.op = "search" /\ HasOneRankRange(lastOp.spec)) =>
        LET cands == Candidates(lastOp.spec)
            c == Cardinality(cands)
            lo == RankMin(lastOp.spec)
            hi == RankMax(lastOp.spec)
        IN /\ (lo = 1 /\ hi > 0) =>
                  /\ Len(lastOp.result) = Min(hi, c)
                  /\ IsRankSlice(lastOp.result, cands, 1, hi)
           /\ (lo = c + 1 /\ hi >= lo) => lastOp.result = <<>>

\* the statement of C6 for the searches that run the word graph
C6_ProbabilitySliceOnGraphPath ==
    (lastOp.op = "search" /\ ~TakesNonGraphPath(lastOp.spec)) => C6_ProbabilitySlice

\* C7: on the set-algebra path too, a ProbabilityOrder condition with a
\* positive upper bound restricts the result to the ranks [min, max], so that
\* it never holds more than max - min + 1 words
C7_RangeAppliedOnSetAlgebraPath ==
    (/\ lastOp.op = "search"
     /\ HasOneRankRange(lastOp.spec)
     /\ TakesNonGraphPath(lastOp.spec)
     /\ RankMax(lastOp.spec) > 0) =>
        /\ Len(lastOp.result) <= RankMax(lastOp.spec) - RankMin(lastOp.spec) + 1
        /\ IsRankSlice(lastOp.result, Candidates(lastOp.spec),
                       RankMin(lastOp.spec), RankMax(lastOp.spec))

\* the lower bound of the range after "if (probRangeMin <= 0) probRangeMin = 1"
ClampedRankMin(spec) == IF RankMin(spec) <= 0 THEN 1 ELSE RankMin(spec)

\* the number of ranks in max(min, 1)..max, none when max is the lesser
RangeLength(spec) ==
    IF RankMax(spec) < ClampedRankMin(spec) THEN 0
    ELSE RankMax(spec) - ClampedRankMin(spec) + 1

\* a search of the graph path with one ProbabilityOrder condition, max > 0
IsRankedGraphSearch ==
    /\ lastOp.op = "search"
    /\ HasOneRankRange(lastOp.spec)
    /\ ~TakesNonGraphPath(lastOp.spec)
    /\ RankMax(lastOp.spec) > 0

\* C28: on the graph path a ProbabilityOrder condition with max > 0, whatever
\* the order of its bounds, leaves exactly the candidates of the ranks
\* max(min, 1)..max: nothing when max < min, and never more than
\* max - max(min, 1) + 1 words
C28_SliceOfAnyRange ==
    IsRankedGraphSearch =>
        /\ IsRankSlice(lastOp.result, Candidates(lastOp.spec),
                       ClampedRankMin(lastOp.spec), RankMax(lastOp.spec))
        /\ RankMax(lastOp.spec) < RankMin(lastOp.spec) => lastOp.result = <<>>
        /\ Len(lastOp.result) <= RangeLength(lastOp.spec)

\* the statement of C28 for the ranges with max >= min - 1, for which the
\* length given to QList::mid is not negative
C28_SliceOfOrderedRange ==
    (IsRankedGraphSearch /\ RankMax(lastOp.spec) >= RankMin(lastOp.spec) - 1) =>
        C28_SliceOfAnyRange

\* with max < min - 1 and min within the candidates, the length given to
\* QList::mid is negative, and the candidates of the ranks min and above
\* are returned
C28_ReversedRangeKeepsTheTail ==
    (/\ IsRankedGraphSearch
     /\ RankMax(lastOp.spec) < RankMin(lastOp.spec) - 1
     /\ RankMin(lastOp.spec) <= Cardinality(Candidates(lastOp.spec))) =>
        /\ lastOp.result # <<>>
        /\ IsRankSlice(lastOp.result, Candidates(lastOp.spec),
                       RankMin(lastOp.spec),
                       Cardinality(Candidates(lastOp.spec)))

-----------------------------------------------------------------------------
(* getDefinition and replaceDefinitionLinks *)

MAX_DEFINITION_LINKS == 3

\* followRegex "\{(\w+)=(\w+)\}" or replaceRegex "\<(\w+)=(\w+)\>", given its
\* opening and closing character: does it match s at index i
LinkMatchAt(s, i, open, close) ==
    /\ i <= Len(s)
    /\ s[i] = open
    /\ WordRun(s, i + 1) > 0
    /\ LET eq == i + 1 + WordRun(s, i + 1) IN
       /\ eq <= Len(s)
       /\ s[eq] = 61
       /\ WordRun(s, eq + 1) > 0
       /\ eq + 1 + WordRun(s, eq + 1) <= Len(s)
       /\ s[eq + 1 + WordRun(s, eq + 1)] = close

\* the first index from which the regex matches s, 0 when there is none
RECURSIVE LinkFrom(_, _, _, _)
LinkFrom(s, from, open, close) ==
    IF from > Len(s) THEN 0
    ELSE IF LinkMatchAt(s, from, open, close) THEN from
    ELSE LinkFrom(s, from + 1, open, close)

\* regex.indexIn (definition, 0), 1-based, 0 when there is no match
FirstLink(s, open, close) == LinkFrom(s, 1, open, close)

\* cap (1) of the match at index i
LinkWord(s, i) == SubSeq(s, i + 1, i + WordRun(s, i + 1))

\* cap (2) of the match at index i
LinkPos(s, i) ==
    LET eq == i + 1 + WordRun(s, i + 1) IN SubSeq(s, eq + 1, eq + WordRun(s, eq + 1))

\* matchedLength() of the match at index i
LinkLength(s, i) == Len(LinkWord(s, i)) + Len(LinkPos(s, i)) + 3

\* the one element of a singleton set
TheOne(S) == CHOOSE x \in S : TRUE

\* the first entry of a multimap that has the key, 0 when there is none
FirstWithKey(mmap, key) ==
    IF \E i \in 1..Len(mmap) : mmap[i][1] = key
    THEN CHOOSE i \in 1..Len(mmap) :
             mmap[i][1] = key /\ \A j \in 1..(i - 1) : mmap[j][1] # key
    ELSE 0

\* getSubDefinition returning the whole sense, its annotation too
getSubDefinitionUncut(table, word, pos) ==
    IF word \notin DOMAIN table THEN <<>>
    ELSE IF FirstWithKey(table[word], pos) = 0 THEN <<>>
    ELSE table[word][FirstWithKey(table[word], pos)][2]

\* WordEngine::getSubDefinition, on a given table
getSubDefinition(table, word, pos) ==
    IF word \notin DOMAIN table THEN <<>>
    ELSE IF FirstWithKey(table[word], pos) = 0 THEN <<>>
    ELSE TheOne({ left(text, IndexOfFrom(text, <<32, 91>>, 1) - 1)
                : text \in {table[word][FirstWithKey(table[word], pos)][2]} })

\* the match replaceDefinitionLinks works on: followRegex is tried first and
\* replaceRegex only when followRegex does not match; index 0 is no match
matchedRegex(definition) ==
    TheOne({ IF followIndex > 0
             THEN [index |-> followIndex, isFollow |-> TRUE]
             ELSE [index |-> FirstLink(definition, 60, 62), isFollow |-> FALSE]
           : followIndex \in {FirstLink(definition, 123, 125)} })

\* modified.replace (index, matchedLength, replacement)
replace(definition, index, length, replacement) ==
    SubSeq(definition, 1, index - 1) \o replacement \o
    SubSeq(definition, index + length, Len(definition))

\* the end of an activation that found a link, when with no depth left it
\* calls itself again on the definition as it is
ReplaceMatchNoBaseCase(definition, maxDepth, useFollow, match, sub) ==
    LET word == LinkWord(definition, match.index)
        replacement ==
            IF useFollow
            THEN IF match.isFollow THEN word \o <<32, 40>> \o sub \o <<41>> ELSE sub
            ELSE toUpper(word) \o <<44, 32>> \o sub
        modified ==
            replace(definition, match.index, LinkLength(definition, match.index),
                    replacement)
    IN IF maxDepth = 0
       THEN [returns |-> FALSE, text |-> definition, maxDepth |-> 0,
             useFollow |-> useFollow, substituted |-> FALSE, expanded |-> FALSE]
       ELSE [returns |-> FALSE, text |-> modified, maxDepth |-> maxDepth - 1,
             useFollow |-> useFollow, substituted |-> TRUE, expanded |-> TRUE]

\* the end of an activation that found a link: the link is replaced by the
\* bare word when maxDepth is 0, and else by the sub-definition, whereupon
\* the activation calls itself with maxDepth - 1
ReplaceMatch(definition, maxDepth, useFollow, match, sub) ==
    LET word == LinkWord(definition, match.index)
        replacement ==
            IF maxDepth = 0 THEN word
            ELSE IF useFollow
            THEN IF match.isFollow THEN word \o <<32, 40>> \o sub \o <<41>> ELSE sub
            ELSE toUpper(word) \o <<44, 32>> \o sub
        modified ==
            replace(definition, match.index, LinkLength(definition, match.index),
                    replacement)
    IN IF maxDepth = 0
       THEN [returns |-> TRUE, text |-> modified, maxDepth |-> 0,
             useFollow |-> useFollow, substituted |-> TRUE, expanded |-> FALSE]
       ELSE [returns |-> FALSE, text |-> modified, maxDepth |-> maxDepth - 1,
             useFollow |-> useFollow, substituted |-> TRUE, expanded |-> TRUE]

\* an activation of replaceDefinitionLinks that uses the follow forms only
\* for the token it has matched itself, and calls itself with the useFollow
\* it was called with
replaceDefinitionLinksForgetting(table, definition, maxDepth, useFollow) ==
    TheOne({
        IF match.index = 0
        THEN [returns |-> TRUE, text |-> definition, maxDepth |-> maxDepth,
              useFollow |-> useFollow, substituted |-> FALSE, expanded |-> FALSE]
        ELSE TheOne({
            [ReplaceMatch(definition, maxDepth, match.isFollow, match, sub)
                EXCEPT !.useFollow = useFollow]
          : sub \in {getSubDefinition(
                         table, toUpper(LinkWord(definition, match.index)),
                         LinkPos(definition, match.index))} })
      : match \in {matchedRegex(definition)} })

\* one activation of WordEngine::replaceDefinitionLinks: either it returns
\* text, or it calls itself with text, maxDepth and useFollow
replaceDefinitionLinks(table, definition, maxDepth, useFollow) ==
    TheOne({
        IF match.index = 0
        THEN [returns |-> TRUE, text |-> definition, maxDepth |-> maxDepth,
              useFollow |-> useFollow, substituted |-> FALSE, expanded |-> FALSE]
        ELSE TheOne({
            ReplaceMatch(definition, maxDepth, useFollow \/ match.isFollow,
                         match, sub)
          : sub \in {getSubDefinition(
                         table, toUpper(LinkWord(definition, match.index)),
                         LinkPos(definition, match.index))} })
      : match \in {matchedRegex(definition)} })

\* the first call of replaceDefinitionLinks on a sense, one level too deep
FirstActivationOneDeeper(text) ==
    [text |-> text, maxDepth |-> MAX_DEFINITION_LINKS + 1, useFollow |-> FALSE,
     substitutions |-> 0, expansions |-> 0]

\* the call replaceDefinitionLinks (mit->second, MAX_DEFINITION_LINKS) of
\* getDefinition, with the counts of what it has replaced so far
FirstActivation(text) ==
    [text |-> text, maxDepth |-> MAX_DEFINITION_LINKS, useFollow |-> FALSE,
     substitutions |-> 0, expansions |-> 0]

Max(a, b) == IF a >= b THEN a ELSE b

\* WordEngine::getDefinition is called: a word with no entry returns at once
GetDefinition(word) ==
    /\ call.state = "idle"
    /\ IF word \notin DOMAIN definitions
       THEN /\ lastOp' = [op |-> "getDefinition", word |-> word, result |-> <<>>,
                          substitutions |-> 0, expansions |-> 0]
            /\ call' = call
       ELSE /\ call' = [state |-> "running", word |-> word, mit |-> 1,
                        definition |-> <<>>,
                        sense |-> FirstActivation(definitions[word][1][2]),
                        mostSubstitutions |-> 0, mostExpansions |-> 0]
            /\ lastOp' = [op |-> "getDefinition", word |-> word]
    /\ UNCHANGED <<crosswordGameForm, definitionsThread, graph, reverseGraph, numAnagramsMap, lexiconName, definitions,
                   stems, stemAlphagrams, readWords>>

\* one activation of replaceDefinitionLinks runs inside getDefinition; when
\* it returns, the loop of getDefinition goes on to the next sense or returns
ReplaceStep ==
    /\ call.state = "running"
    /\ \E r \in {replaceDefinitionLinks(definitions, call.sense.text,
                                        call.sense.maxDepth, call.sense.useFollow)} :
       LET subs == call.sense.substitutions + (IF r.substituted THEN 1 ELSE 0)
           exps == call.sense.expansions + (IF r.expanded THEN 1 ELSE 0)
           mmap == definitions[call.word]
           definition == (IF call.definition = <<>> THEN <<>>
                          ELSE call.definition \o <<32, 47, 32>>) \o r.text
       IN
       IF ~r.returns
       THEN /\ call' = [call EXCEPT !.sense =
                           [text |-> r.text, maxDepth |-> r.maxDepth,
                            useFollow |-> r.useFollow, substitutions |-> subs,
                            expansions |-> exps]]
            /\ lastOp' = lastOp
       ELSE IF call.mit < Len(mmap)
       THEN /\ call' = [call EXCEPT
                           !.mit = @ + 1,
                           !.definition = definition,
                           !.sense = FirstActivation(mmap[call.mit + 1][2]),
                           !.mostSubstitutions = Max(@, subs),
                           !.mostExpansions = Max(@, exps)]
            /\ lastOp' = lastOp
       ELSE /\ call' = [state |-> "idle"]
            /\ lastOp' = [op |-> "getDefinition", word |-> call.word,
                          result |-> definition,
                          substitutions |-> Max(call.mostSubstitutions, subs),
                          expansions |-> Max(call.mostExpansions, exps)]
    /\ UNCHANGED <<crosswordGameForm, definitionsThread, graph, reverseGraph, numAnagramsMap, lexiconName, definitions,
                   stems, stemAlphagrams, readWords>>

\* the lines of a word list with definitions:
\*   "AT {ta=n} [n]", "TA <at=n> [n]", "CAT <cat=n> [n CATS]",
\*   "ACT to do [v] / {at=n} [n]"
DefinitionLines ==
    { <<65, 84, 32, 123, 116, 97, 61, 110, 125, 32, 91, 110, 93>>,
      <<84, 65, 32, 60, 97, 116, 61, 110, 62, 32, 91, 110, 93>>,
      <<67, 65, 84, 32, 60, 99, 97, 116, 61, 110, 62, 32, 91, 110, 32, 67, 65, 84, 83, 93>>,
      <<65, 67, 84, 32, 116, 111, 32, 100, 111, 32, 91, 118, 93, 32, 47, 32, 123, 97, 116, 61, 110, 125, 32, 91, 110, 93>> }

DefinitionFiles == SeqsUpTo(DefinitionLines, MaxLexiconFileLines)

\* a word list read with its definitions, while no call is running
DefinitionsImport ==
    /\ call.state = "idle"
    /\ \E file \in DefinitionFiles : importTextFile(file, "OWL", TRUE, TRUE)

\* the words asked for: "AT", "TA", "CAT", "ACT", "CATS"
DefinedWords == { <<65, 84>>, <<84, 65>>, <<67, 65, 84>>, <<65, 67, 84>>, <<67, 65, 84, 83>> }

DefinitionLookup == \E word \in DefinedWords : GetDefinition(word)

NextDefinitions == DefinitionsImport \/ DefinitionLookup \/ ReplaceStep

\* getDefinition runs to its end once called: nothing else runs meanwhile
SpecDefinitions ==
    Init /\ [][NextDefinitions]_vars /\ WF_vars(ReplaceStep)

\* C8: getDefinition terminates for every definition table, the tables whose
\* links form a cycle included
C8_GetDefinitionTerminates ==
    (call.state = "running") ~> (call.state = "idle")

\* AT links to TA and TA links back to AT; getDefinition("AT") has returned
C8_Witness ==
    /\ lastOp.op = "getDefinition"
    /\ call.state = "idle"
    /\ lastOp.word = <<65, 84>>
    /\ <<84, 65>> \in DOMAIN definitions
    /\ lastOp.substitutions > MAX_DEFINITION_LINKS

\* the substitutions and expansions made so far for the sense being resolved,
\* or the most made for one sense by the call that returned last
SubstitutionsSeen ==
    IF call.state = "running"
    THEN Max(call.sense.substitutions, call.mostSubstitutions)
    ELSE IF lastOp.op = "getDefinition" THEN lastOp.substitutions ELSE 0

ExpansionsSeen ==
    IF call.state = "running"
    THEN Max(call.sense.expansions, call.mostExpansions)
    ELSE IF lastOp.op = "getDefinition" THEN lastOp.expansions ELSE 0

\* C9 as claimed: resolving one sense, getDefinition replaces at most
\* MAX_DEFINITION_LINKS = 3 link tokens
C9_AtMostThreeSubstitutions == SubstitutionsSeen <= MAX_DEFINITION_LINKS

\* C9 as the code has it: resolving one sense, getDefinition replaces at most
\* MAX_DEFINITION_LINKS + 1 = 4 link tokens; at most MAX_DEFINITION_LINKS of
\* them by a sub-definition, and a fourth by the bare word it refers to
C9_AtMostFourSubstitutions ==
    /\ SubstitutionsSeen <= MAX_DEFINITION_LINKS + 1
    /\ ExpansionsSeen <= MAX_DEFINITION_LINKS

\* CAT links to itself; getDefinition("CAT") has returned after four
\* substitutions, three of them expansions
C9_Witness ==
    /\ lastOp.op = "getDefinition"
    /\ call.state = "idle"
    /\ lastOp.word = <<67, 65, 84>>
    /\ lastOp.substitutions = MAX_DEFINITION_LINKS + 1
    /\ lastOp.expansions = MAX_DEFINITION_LINKS
    /\ lastOp.result = <<67, 65, 84, 44, 32, 67, 65, 84, 44, 32, 67, 65, 84, 44, 32, 99, 97, 116, 32, 91, 110, 32, 67, 65, 84, 83, 93>>

-----------------------------------------------------------------------------
(* Membership in the hook groups *)

\* the words asked about: "CAT", "CATS", "ATS", "AT", "ACT", "A", ""
GroupWords == { <<67, 65, 84>>, <<67, 65, 84, 83>>, <<65, 84, 83>>, <<65, 84>>, <<65, 67, 84>>, <<65>>, <<>> }

HookSets == {"SetHookWords", "SetFrontHooks", "SetBackHooks"}

\* WordEngine::isSetMember is called on a word for one of the hook groups
IsSetMember(word, ss) ==
    /\ lastOp' = [op |-> "isSetMember", word |-> word, ss |-> ss,
                  ret |-> isSetMember(word, ss)]
    /\ UNCHANGED <<crosswordGameForm, definitionsThread, graph, reverseGraph, numAnagramsMap, lexiconName, definitions,
                   stems, stemAlphagrams, call, readWords>>

HookMembership == \E word \in GroupWords, ss \in HookSets : IsSetMember(word, ss)

NextGroups == WordListImport \/ HookMembership

SpecGroups == Init /\ [][NextGroups]_vars

\* the word without its first letter, and without its last letter
WithoutFirstLetter(word) == SubSeq(word, 2, Len(word))

WithoutLastLetter(word) == SubSeq(word, 1, Len(word) - 1)

\* C10 as claimed: a word is in the front hook group iff the word with its
\* last letter removed is acceptable, in the back hook group iff the word with
\* its first letter removed is acceptable, in the hook word group iff either
C10_HookGroupsAsClaimed ==
    lastOp.op = "isSetMember" =>
        /\ lastOp.ss = "SetFrontHooks" =>
               (lastOp.ret <=> isAcceptable(WithoutLastLetter(lastOp.word)))
        /\ lastOp.ss = "SetBackHooks" =>
               (lastOp.ret <=> isAcceptable(WithoutFirstLetter(lastOp.word)))
        /\ lastOp.ss = "SetHookWords" =>
               (lastOp.ret <=> \/ isAcceptable(WithoutLastLetter(lastOp.word))
                               \/ isAcceptable(WithoutFirstLetter(lastOp.word)))

\* C10 as the code has it: a word is in the front hook group iff the word with
\* its first letter removed is acceptable, in the back hook group iff the word
\* with its last letter removed is acceptable, in the hook word group iff either
C10_HookGroupsAsCoded ==
    lastOp.op = "isSetMember" =>
        /\ lastOp.ss = "SetFrontHooks" =>
               (lastOp.ret <=> isAcceptable(WithoutFirstLetter(lastOp.word)))
        /\ lastOp.ss = "SetBackHooks" =>
               (lastOp.ret <=> isAcceptable(WithoutLastLetter(lastOp.word)))
        /\ lastOp.ss = "SetHookWords" =>
               (lastOp.ret <=> \/ isAcceptable(WithoutLastLetter(lastOp.word))
                               \/ isAcceptable(WithoutFirstLetter(lastOp.word)))

\* AT is acceptable and CA is not: CAT has been found in the front hook group
C10_Witness ==
    /\ lastOp.op = "isSetMember"
    /\ lastOp.ss = "SetFrontHooks"
    /\ lastOp.word = <<67, 65, 84>>
    /\ lastOp.ret
    /\ isAcceptable(<<65, 84>>)
    /\ ~isAcceptable(<<67, 65>>)

-----------------------------------------------------------------------------
(* getFrontHookLetters and getBackHookLetters *)

\* the iteration of a std::set<QChar>: its members in ascending order
RECURSIVE LettersInOrder(_)
LettersInOrder(letters) ==
    IF letters = {} THEN <<>>
    ELSE LET least == CHOOSE c \in letters : \A d \in letters : c <= d IN
         <<least>> \o LettersInOrder(letters \ {least})

\* getFrontHookLetters taking the last letter of each word found
getFrontHookLettersOfLast(word) ==
    LET words == search(SearchSpec(<<PatternMatch(<<63>> \o word)>>, TRUE), TRUE) IN
    LettersInOrder({toLowerChar(words[i][Len(words[i])]) : i \in 1..Len(words)})

\* WordEngine::getFrontHookLetters
getFrontHookLetters(word) ==
    LET words == search(SearchSpec(<<PatternMatch(<<63>> \o word)>>, TRUE), TRUE) IN
    LettersInOrder({toLowerChar(words[i][1]) : i \in 1..Len(words)})

\* WordEngine::getBackHookLetters
getBackHookLetters(word) ==
    LET words == search(SearchSpec(<<PatternMatch(word \o <<63>>)>>, TRUE), TRUE) IN
    LettersInOrder({toLowerChar(words[i][Len(words[i])]) : i \in 1..Len(words)})

\* the lines of the word list: "CAT", "BAT", "AT", "ATE"
HookLines == { <<67, 65, 84>>, <<66, 65, 84>>, <<65, 84>>, <<65, 84, 69>> }

HookListImport ==
    /\ CountsBelowBound
    /\ \E file \in SeqsUpTo(HookLines, MaxLexiconFileLines) :
           importTextFile(file, "OWL", FALSE, TRUE)

\* the words asked about: "AT", "CAT", "A", "T"
HookedWords == { <<65, 84>>, <<67, 65, 84>>, <<65>>, <<84>> }

GetFrontHookLetters ==
    /\ \E word \in HookedWords :
           lastOp' = [op |-> "getFrontHookLetters", word |-> word,
                      ret |-> getFrontHookLetters(word)]
    /\ UNCHANGED <<crosswordGameForm, definitionsThread, graph, reverseGraph, numAnagramsMap, lexiconName, definitions,
                   stems, stemAlphagrams, call, readWords>>

GetBackHookLetters ==
    /\ \E word \in HookedWords :
           lastOp' = [op |-> "getBackHookLetters", word |-> word,
                      ret |-> getBackHookLetters(word)]
    /\ UNCHANGED <<crosswordGameForm, definitionsThread, graph, reverseGraph, numAnagramsMap, lexiconName, definitions,
                   stems, stemAlphagrams, call, readWords>>

NextHooks == HookListImport \/ GetFrontHookLetters \/ GetBackHookLetters

SpecHooks == Init /\ [][NextHooks]_vars

\* a string of lower-case letters in ascending order, none of them twice
AscendingLetters(s) ==
    /\ \A i \in 1..Len(s) : IsLowerChar(s[i])
    /\ \A i \in 1..(Len(s) - 1) : s[i] < s[i + 1]

C11_WitnessBack ==
    /\ lastOp.op = "getBackHookLetters"
    /\ lastOp.word = <<65, 84>>
    /\ {<<65, 84>>, <<65, 84, 69>>} \subseteq graph
    /\ lastOp.ret = <<101>>

-----------------------------------------------------------------------------
(* Searches over short lists of conditions of every kind *)

\* the conditions a spec is made of: the word lists "DOG CAT ACT" and
\* "AT CAT", the negated word list "CAT", the prefix "C"
SearchConditions ==
    { InWordList(FALSE, <<68, 79, 71, 32, 67, 65, 84, 32, 65, 67, 84>>),
      InWordList(FALSE, <<65, 84, 32, 67, 65, 84>>),
      InWordList(TRUE, <<67, 65, 84>>),
      PrefixCond(FALSE, <<67>>) }

\* what may follow them: nothing, the group "Bogus", or its negation
UnknownGroups ==
    { <<>>, <<BelongToGroup(FALSE, <<66, 111, 103, 117, 115>>)>>,
      <<BelongToGroup(TRUE, <<66, 111, 103, 117, 115>>)>> }

SearchAny ==
    \E conditions \in SeqsUpTo(SearchConditions, MaxConditions),
       group \in UnknownGroups, conjunction \in BOOLEAN :
        Search(SearchSpec(conditions \o group, conjunction), FALSE)

\* the group of the words new in OWL2, negated or not, alone, after the word
\* list "AT CAT" or after the prefix "C"
SearchNewInOwl2 ==
    \E negated \in BOOLEAN, conjunction \in BOOLEAN,
       others \in {<<>>, <<InWordList(FALSE, <<65, 84, 32, 67, 65, 84>>)>>,
                   <<PrefixCond(FALSE, <<67>>)>>} :
        Search(SearchSpec(others \o <<BelongToGroup(negated, NewInOwl2Name)>>,
                          conjunction), FALSE)

NextSearch == WordListImport \/ SearchAny \/ SearchNewInOwl2

SpecSearch == Init /\ [][NextSearch]_vars

\* C12: a search with one non-negated InWordList condition and nothing else
\* returns exactly the acceptable words of the payload, and graph.search is not
\* called for it
C12_OneListIsAnsweredBySetAlgebra ==
    (/\ lastOp.op = "search"
     /\ Len(lastOp.spec.conditions) = 1
     /\ lastOp.spec.conditions[1].type = "InWordList"
     /\ ~lastOp.spec.conditions[1].negated) =>
        /\ NoDuplicates(lastOp.result)
        /\ ListToSet(lastOp.result) =
               AcceptableIn(lastOp.spec.conditions[1].stringValue)
        /\ ~lastOp.graphSearched

\* over a lexicon where, of DOG, CAT and ACT, only CAT and ACT are acceptable,
\* the search for the list "DOG CAT ACT" has returned ACT and CAT
C12_Witness ==
    /\ lastOp.op = "search"
    /\ lastOp.spec.conditions = <<InWordList(FALSE, <<68, 79, 71, 32, 67, 65, 84, 32, 65, 67, 84>>)>>
    /\ isAcceptable(<<67, 65, 84>>) /\ isAcceptable(<<65, 67, 84>>) /\ ~isAcceptable(<<68, 79, 71>>)
    /\ lastOp.result = << <<65, 67, 84>>, <<67, 65, 84>> >>
    /\ ~lastOp.graphSearched

\* the condition names a group that stringToSearchSet does not know
IsUnknownGroup(condition) ==
    /\ condition.type = "BelongToGroup"
    /\ stringToSearchSet(condition.stringValue) = "UnknownSearchSet"

\* the spec with its conditions on unknown groups deleted
WithoutUnknownGroups(spec) ==
    SearchSpec(SelectSeq(spec.conditions, LAMBDA c : ~IsUnknownGroup(c)),
               spec.conjunction)

HasUnknownGroup(spec) ==
    \E i \in 1..Len(spec.conditions) : IsUnknownGroup(spec.conditions[i])

\* C16 as claimed: a search whose spec has a BelongToGroup condition on an
\* unknown group, negated or not, returns what the search for the same spec
\* without that condition returns
C16_UnknownGroupIsIgnored ==
    (lastOp.op = "search" /\ HasUnknownGroup(lastOp.spec)) =>
        lastOp.result = search(WithoutUnknownGroups(lastOp.spec), lastOp.allCaps)

\* the same of the specs whose conditions are all to hold
C16_UnknownGroupIsIgnoredInConjunctions ==
    (lastOp.op = "search" /\ HasUnknownGroup(lastOp.spec)
        /\ lastOp.spec.conjunction) =>
        lastOp.result = search(WithoutUnknownGroups(lastOp.spec), lastOp.allCaps)

\* the same of the specs that search the graph without the unknown group too
C16_UnknownGroupIsIgnoredOnTheGraphPath ==
    (lastOp.op = "search" /\ HasUnknownGroup(lastOp.spec)
        /\ ~TakesNonGraphPath(WithoutUnknownGroups(lastOp.spec))) =>
        lastOp.result = search(WithoutUnknownGroups(lastOp.spec), lastOp.allCaps)

\* every condition of the spec, and there is one, is an InWordList condition
IsOfWordListsOnly(spec) ==
    /\ spec.conditions # <<>>
    /\ \A i \in 1..Len(spec.conditions) : spec.conditions[i].type = "InWordList"

HasNegatedWordList(spec) ==
    \E i \in 1..Len(spec.conditions) :
        spec.conditions[i].type = "InWordList" /\ spec.conditions[i].negated

\* the condition is one nonGraphSearch can answer: a word list that is not
\* negated, a range of anagram counts, a probability order, the group of the
\* words new in OWL2
IsOfSetAlgebra(condition) ==
    \/ condition.type = "InWordList" /\ ~condition.negated
    \/ condition.type \in {"NumAnagrams", "ProbabilityOrder"}
    \/ /\ condition.type = "BelongToGroup"
       /\ stringToSearchSet(condition.stringValue) = "SetNewInOwl2"

\* C20 as claimed: a search whose conditions are all InWordList conditions,
\* negated or not, does not run graph.search
C20_WordListsGoToSetAlgebra ==
    (lastOp.op = "search" /\ IsOfWordListsOnly(lastOp.spec)) => ~lastOp.graphSearched

\* C20 as the code has it: a search whose conditions are all InWordList
\* conditions runs graph.search exactly when one of them is negated; in
\* general graph.search is left out exactly when every condition is one that
\* nonGraphSearch can answer and one of them is a word list
C20_NegatedListsSearchTheGraph ==
    lastOp.op = "search" =>
        /\ IsOfWordListsOnly(lastOp.spec) =>
               (lastOp.graphSearched = HasNegatedWordList(lastOp.spec))
        /\ (~lastOp.graphSearched) =
               /\ \A i \in 1..Len(lastOp.spec.conditions) :
                      IsOfSetAlgebra(lastOp.spec.conditions[i])
               /\ \E i \in 1..Len(lastOp.spec.conditions) :
                      \/ lastOp.spec.conditions[i].type = "InWordList"
                      \/ /\ lastOp.spec.conditions[i].type = "BelongToGroup"
                         /\ stringToSearchSet(lastOp.spec.conditions[i].stringValue)
                                = "SetNewInOwl2"

\* the search for the words of "AT CAT" that are not in "CAT" has run
\* graph.search, and has returned AT
C20_Witness ==
    /\ lastOp.op = "search"
    /\ lastOp.spec.conditions =
           <<InWordList(FALSE, <<65, 84, 32, 67, 65, 84>>), InWordList(TRUE, <<67, 65, 84>>)>>
    /\ lastOp.graphSearched
    /\ lastOp.result = << <<65, 84>> >>

\* the search for two word lists has not run graph.search
C20_WitnessSetAlgebra ==
    /\ lastOp.op = "search"
    /\ Len(lastOp.spec.conditions) = 2
    /\ IsOfWordListsOnly(lastOp.spec)
    /\ ~lastOp.graphSearched
    /\ lastOp.result # <<>>

\* the spec has a negated condition on the group of the words new in OWL2
HasNegatedNewInOwl2(spec) ==
    \E i \in 1..Len(spec.conditions) :
        /\ spec.conditions[i].type = "BelongToGroup"
        /\ spec.conditions[i].stringValue = NewInOwl2Name
        /\ spec.conditions[i].negated

\* C26 as claimed: a search whose spec has a negated condition on the group of
\* the words new in OWL2 returns no word of the list of these words
C26_NegatedNewInOwl2ExcludesTheList ==
    (lastOp.op = "search" /\ HasNegatedNewInOwl2(lastOp.spec)) =>
        \A i \in 1..Len(lastOp.result) :
            lastOp.result[i] \notin ListToSet(NewInOwl2File)

\* the same of the searches that run graph.search
C26_NegatedNewInOwl2OnTheGraphPath ==
    (lastOp.op = "search" /\ HasNegatedNewInOwl2(lastOp.spec)
        /\ lastOp.graphSearched) =>
        \A i \in 1..Len(lastOp.result) :
            lastOp.result[i] \notin ListToSet(NewInOwl2File)

\* what the set-algebra path does with the negated group: the result is the
\* one of the group not negated
C26_NegationIsLostOnSetAlgebraPath ==
    (lastOp.op = "search" /\ HasNegatedNewInOwl2(lastOp.spec)
        /\ ~lastOp.graphSearched) =>
        lastOp.result =
               search([lastOp.spec EXCEPT !.conditions[Len(lastOp.spec.conditions)].negated = FALSE],
                      lastOp.allCaps)

-----------------------------------------------------------------------------
(* Definitions loaded by the thread *)

\* LoadDefinitionsThread::run: the table of the file, built from nothing
LoadedDefinitions(file) ==
    ImportTextLines(file, TRUE, [graph |-> {}, map |-> <<>>, defs |-> <<>>,
                                 imported |-> 0]).defs

\* WordEngine::importDefinitions: the file is handed to the thread, loaded() is
\* connected to definitionsLoaded once more and the thread is started; a thread
\* that is running stays as it is, and reads the name it had or the new one
importDefinitions(file) ==
    /\ call.state = "idle"
    /\ definitionsThread.connections + definitionsThread.loaded < MaxConnections
    /\ \E filename \in IF definitionsThread.running
                       THEN {definitionsThread.filename, file} ELSE {file} :
           definitionsThread' =
               [definitionsThread EXCEPT !.running = TRUE, !.filename = filename,
                                         !.connections = @ + 1]
    /\ lastOp' = [op |-> "importDefinitions"]
    /\ UNCHANGED <<crosswordGameForm, graph, reverseGraph, numAnagramsMap, lexiconName, definitions,
                   stems, stemAlphagrams, call, readWords>>

\* the thread has read its file to the end: its table is complete and loaded()
\* is emitted, one queued call of definitionsLoaded for every connection
ThreadLoaded ==
    /\ definitionsThread.running
    /\ definitionsThread' =
           [definitionsThread EXCEPT
               !.running = FALSE,
               !.definitions = LoadedDefinitions(definitionsThread.filename),
               !.loaded = @ + definitionsThread.connections]
    /\ UNCHANGED <<crosswordGameForm, graph, reverseGraph, numAnagramsMap, lexiconName, definitions,
                   stems, stemAlphagrams, call, readWords, lastOp>>

\* definitionsLoaded adding the thread's table to the table there is
definitionsLoadedMerging ==
    /\ call.state = "idle"
    /\ definitionsThread.loaded > 0
    /\ definitions' =
           [w \in DOMAIN definitions \cup DOMAIN definitionsThread.definitions |->
               IF w \in DOMAIN definitionsThread.definitions
               THEN definitionsThread.definitions[w] ELSE definitions[w]]
    /\ definitionsThread' =
           [definitionsThread EXCEPT !.loaded = @ - 1, !.connections = 0]
    /\ lastOp' = [op |-> "definitionsLoaded"]
    /\ UNCHANGED <<crosswordGameForm, graph, reverseGraph, numAnagramsMap, lexiconName, stems,
                   stemAlphagrams, call, readWords>>

\* WordEngine::definitionsLoaded, the slot of loaded(): it runs in the thread
\* of the engine, between two calls of the engine
definitionsLoaded ==
    /\ call.state = "idle"
    /\ definitionsThread.loaded > 0
    /\ definitions' = definitionsThread.definitions
    /\ definitionsThread' =
           [definitionsThread EXCEPT !.loaded = @ - 1, !.connections = 0]
    /\ lastOp' = [op |-> "definitionsLoaded"]
    /\ UNCHANGED <<crosswordGameForm, graph, reverseGraph, numAnagramsMap, lexiconName, stems,
                   stemAlphagrams, call, readWords>>

\* the files of definitions loaded: "AT {ta=n} [n]" and "CAT <cat=n> [n CATS]"
LoadedFiles ==
    { <<<<65, 84, 32, 123, 116, 97, 61, 110, 125, 32, 91, 110, 93>>>>,
      <<<<67, 65, 84, 32, 60, 99, 97, 116, 61, 110, 62, 32, 91, 110, 32, 67, 65, 84, 83, 93>>>> }

ImportDefinitions == \E file \in LoadedFiles : importDefinitions(file)

ImportTextWithDefinitions ==
    /\ call.state = "idle"
    /\ \E file \in LoadedFiles : importTextFile(file, "OWL", TRUE, TRUE)

NextLoading ==
    \/ ImportDefinitions
    \/ ThreadLoaded
    \/ definitionsLoaded
    \/ ImportTextWithDefinitions
    \/ DefinitionLookup
    \/ ReplaceStep

SpecLoading == Init /\ [][NextLoading]_vars

C14_WitnessInFlight ==
    /\ definitionsThread.running
    /\ definitions # <<>>
    /\ DOMAIN definitions = readWords
    /\ lastOp.op = "getDefinition"
    /\ call.state = "idle"

-----------------------------------------------------------------------------
(* importStems *)

\* the body of the read loop of importStems with no stem discarded
ImportStemLineOfAnyLength(rawLine, st) ==
    LET line == simplified(rawLine) IN
    IF Len(line) = 0 \/ line[1] = 35 THEN st
    ELSE LET word == sectionFirst(line)
             length == IF st.length = 0 THEN Len(word) ELSE st.length
         IN [words |-> Append(st.words, word),
             alphagrams |-> st.alphagrams \cup {getAlphagram(word)},
             imported |-> st.imported + 1,
             length |-> length]

\* the body of the read loop of importStems: one line read into
\* st = [words, alphagrams, imported, length]
ImportStemLine(rawLine, st) ==
    LET line == simplified(rawLine) IN
    IF Len(line) = 0 \/ line[1] = 35 THEN st
    ELSE LET word == sectionFirst(line)
             length == IF st.length = 0 THEN Len(word) ELSE st.length
         IN IF length # Len(word) THEN [st EXCEPT !.length = length]
            ELSE [words |-> Append(st.words, word),
                  alphagrams |-> st.alphagrams \cup {getAlphagram(word)},
                  imported |-> st.imported + 1,
                  length |-> length]

\* the read loop of importStems
RECURSIVE ImportStemLines(_, _)
ImportStemLines(lines, st) ==
    IF lines = <<>> THEN st
    ELSE ImportStemLines(Tail(lines), ImportStemLine(Head(lines), st))

\* what importStems has read of a file
ReadStems(file) ==
    ImportStemLines(file, [words |-> <<>>, alphagrams |-> {}, imported |-> 0,
                           length |-> 0])

\* importStems replacing the stem list of the length it reads
importStemsReplacing(file, opened) ==
    IF ~opened
    THEN /\ lastOp' = [op |-> "importStems", file |-> file, opened |-> FALSE,
                       ret |-> -1]
         /\ UNCHANGED <<crosswordGameForm, graph, reverseGraph, numAnagramsMap, lexiconName, definitions,
                        stems, stemAlphagrams, call, definitionsThread, readWords>>
    ELSE \E st \in {ReadStems(file)} :
            /\ stems' = MapPut(stems, st.length, st.words)
            /\ stemAlphagrams' = MapPut(stemAlphagrams, st.length, st.alphagrams)
            /\ lastOp' = [op |-> "importStems", file |-> file, opened |-> TRUE,
                          ret |-> st.imported]
            /\ UNCHANGED <<crosswordGameForm, graph, reverseGraph, numAnagramsMap, lexiconName,
                           definitions, call, definitionsThread, readWords>>

\* WordEngine::importStems; opened is whether the file could be opened
importStems(file, opened) ==
    IF ~opened
    THEN /\ lastOp' = [op |-> "importStems", file |-> file, opened |-> FALSE,
                       ret |-> -1]
         /\ UNCHANGED <<crosswordGameForm, graph, reverseGraph, numAnagramsMap, lexiconName, definitions,
                        stems, stemAlphagrams, call, definitionsThread, readWords>>
    ELSE \E st \in {ReadStems(file)} :
            /\ IF st.length \notin DOMAIN stems
               THEN /\ stems' = MapPut(stems, st.length, st.words)
                    /\ stemAlphagrams' =
                           MapPut(stemAlphagrams, st.length, st.alphagrams)
               ELSE /\ stems' = [stems EXCEPT ![st.length] = @ \o st.words]
                    /\ stemAlphagrams' =
                           [stemAlphagrams EXCEPT ![st.length] = @ \cup st.alphagrams]
            /\ lastOp' = [op |-> "importStems", file |-> file, opened |-> TRUE,
                          ret |-> st.imported]
            /\ UNCHANGED <<crosswordGameForm, graph, reverseGraph, numAnagramsMap, lexiconName,
                           definitions, call, definitionsThread, readWords>>

\* the lines of a stem list: "CAT", " ACT x", "#X", "SATIRE"
StemLines ==
    { <<67, 65, 84>>, <<32, 65, 67, 84, 32, 120>>, <<35, 88>>,
      <<83, 65, 84, 73, 82, 69>> }

\* a stem list read, while the lists hold no more than MaxStems stems in all
ImportStems ==
    \E file \in SeqsUpTo(StemLines, MaxFileLines), opened \in BOOLEAN :
        /\ importStems(file, opened)
        /\ Cardinality(UNION { {<<L, i>> : i \in 1..Len(stems'[L])} :
                                 L \in DOMAIN stems' }) <= MaxStems

\* the words asked about: "CATS", "CAT", "SATIRES", "SATIRE", "TASTIER"
StemTestWords ==
    { <<67, 65, 84, 83>>, <<67, 65, 84>>, <<83, 65, 84, 73, 82, 69, 83>>,
      <<83, 65, 84, 73, 82, 69>>, <<84, 65, 83, 84, 73, 69, 82>> }

TypeOneSevenMembership ==
    \E word \in StemTestWords : IsSetMember(word, "SetTypeOneSevens")

NextStems == ImportStems \/ TypeOneSevenMembership

SpecStems == Init /\ [][NextStems]_vars

\* the stems of a list, in the order of the list
StemsOf(list) == { list[i] : i \in 1..Len(list) }

CATS == <<67, 65, 84, 83>>

\* C15 as claimed: with the stems of length 3 being "CAT" alone, the test of
\* the type-one sevens says that "CATS" is a member
C15_CatsIsOverCat ==
    (/\ lastOp.op = "isSetMember" /\ lastOp.ss = "SetTypeOneSevens"
     /\ lastOp.word = CATS
     /\ 3 \in DOMAIN stems /\ stems[3] = <<<<67, 65, 84>>>>)
        => lastOp.ret = TRUE

\* C15 as the code has it: the test of the type-one sevens says that a word is
\* a member exactly when it has seven letters and is made of the letters of a
\* stem of six letters and one letter more; with the stems of length 3 being
\* "CAT" alone it says that "CATS", of four letters, is no member
C15_SevensAreOverStemsOfSix ==
    (lastOp.op = "isSetMember" /\ lastOp.ss = "SetTypeOneSevens") =>
        /\ lastOp.ret =
              (/\ Len(lastOp.word) = 7
               /\ 6 \in DOMAIN stems
               /\ \E stem \in StemsOf(stems[6]), i \in 1..7 :
                      getAlphagram(Append(stem, lastOp.word[i])) =
                          getAlphagram(lastOp.word))
        /\ lastOp.word = CATS => lastOp.ret = FALSE

\* "CATS" was asked about with "CAT" the one stem of length 3, and "SATIRES"
\* with "SATIRE" a stem
C15_Witness ==
    /\ lastOp.op = "isSetMember" /\ lastOp.ss = "SetTypeOneSevens"
    /\ lastOp.word = CATS
    /\ 3 \in DOMAIN stems /\ stems[3] = <<<<67, 65, 84>>>>

C15_WitnessSeven ==
    /\ lastOp.op = "isSetMember" /\ lastOp.ss = "SetTypeOneSevens"
    /\ Len(lastOp.word) = 7
    /\ lastOp.ret = TRUE

\* the stems a file adds: the words of its lines that have the length of the
\* first of them
RECURSIVE FileStemsFrom(_, _)
FileStemsFrom(file, length) ==
    IF file = <<>> THEN <<>>
    ELSE LET line == simplified(Head(file)) IN
         IF line = <<>> \/ line[1] = 35 THEN FileStemsFrom(Tail(file), length)
         ELSE LET word == sectionFirst(line)
                  len == IF length = 0 THEN Len(word) ELSE length
              IN (IF Len(word) = len THEN <<word>> ELSE <<>>) \o
                     FileStemsFrom(Tail(file), len)

StemBucket(L) == IF L \in DOMAIN stems THEN stems[L] ELSE <<>>

BucketsAreOfOneLength ==
    /\ DOMAIN stemAlphagrams = DOMAIN stems
    /\ \A L \in DOMAIN stems :
          /\ \A stem \in StemsOf(stems[L]) : Len(stem) = L
          /\ stemAlphagrams[L] = { getAlphagram(stem) : stem \in StemsOf(stems[L]) }

ImportTouchesOneBucket ==
    lastOp'.op = "importStems" =>
        IF ~lastOp'.opened
        THEN stems' = stems /\ stemAlphagrams' = stemAlphagrams
        ELSE \E added \in {FileStemsFrom(lastOp'.file, 0)} :
                \E length \in {IF added = <<>> THEN 0 ELSE Len(added[1])} :
                   /\ \A L \in DOMAIN stems' \ {length} :
                          L \in DOMAIN stems /\ stems'[L] = stems[L]
                   /\ DOMAIN stems' = DOMAIN stems \cup {length}
                   /\ StemsOf(stems'[length]) =
                          StemsOf(StemBucket(length)) \cup StemsOf(added)

\* C17: every list of stems kept under a length L holds stems of length L
\* only, and the set of alphagrams kept under L is the set of the alphagrams
\* of these stems; an importStems adds the stems of its file that have the
\* length of the first, to the list of that length, and no other stem to any
\* list; one whose file cannot be opened changes nothing
C17_BucketsHoldOneLength ==
    [](BucketsAreOfOneLength) /\ [][ImportTouchesOneBucket]_vars

\* a file with stems of two lengths was read: the stems of the second length
\* are in no list
C17_Witness ==
    /\ lastOp.op = "importStems" /\ lastOp.opened
    /\ Len(lastOp.file) = 2
    /\ lastOp.ret = 1
    /\ Len(lastOp.file[1]) = 3 /\ Len(lastOp.file[2]) = 6
    /\ DOMAIN stems = {3}

\* an empty file was read: the list of length 0 is there, and empty
C17_WitnessEmptyFile ==
    /\ lastOp.op = "importStems" /\ lastOp.opened /\ lastOp.ret = 0
    /\ 0 \in DOMAIN stems /\ 3 \in DOMAIN stems

\* C18 as claimed: after an importStems the list of the length read holds
\* exactly the stems of the file read
C18_ReimportReplaces ==
    [][(lastOp'.op = "importStems" /\ lastOp'.opened) =>
          \E added \in {FileStemsFrom(lastOp'.file, 0)} :
             stems'[IF added = <<>> THEN 0 ELSE Len(added[1])] = added]_vars

\* C18 as the code has it: an importStems appends the stems of the file read
\* to the list of their length, which keeps the stems it had (a file read
\* twice has its stems twice in the list), and adds their alphagrams to the
\* set of that length
C18_ReimportAppends ==
    [][(lastOp'.op = "importStems" /\ lastOp'.opened) =>
          \E added \in {FileStemsFrom(lastOp'.file, 0)} :
             \E length \in {IF added = <<>> THEN 0 ELSE Len(added[1])} :
                /\ stems'[length] = StemBucket(length) \o added
                /\ stemAlphagrams'[length] =
                       (IF length \in DOMAIN stemAlphagrams
                        THEN stemAlphagrams[length] ELSE {}) \cup
                       { getAlphagram(stem) : stem \in StemsOf(added) }]_vars

\* "ACT" was read after "CAT": both are in the list; and a stem is twice in it
C18_Witness ==
    /\ lastOp.op = "importStems" /\ lastOp.opened
    /\ lastOp.file = <<<<32, 65, 67, 84, 32, 120>>>>
    /\ stems[3] = << <<67, 65, 84>>, <<65, 67, 84>> >>

C18_WitnessTwice ==
    /\ lastOp.op = "importStems" /\ lastOp.opened
    /\ lastOp.file = <<<<67, 65, 84>>>>
    /\ stems[3] = << <<67, 65, 84>>, <<67, 65, 84>> >>

-----------------------------------------------------------------------------
(* Searches with two NumAnagrams conditions *)

\* the ranges [min, max] of anagram counts asked for
CountRanges ==
    {r \in (1..MaxAnagramCount) \X (1..MaxAnagramCount) : r[1] <= r[2]}

\* the word list "CAT ACT AT" with two NumAnagrams conditions, before them,
\* between them or after them
SearchCountRanges ==
    \E r1 \in CountRanges, r2 \in CountRanges, at \in 0..2 :
        \E ranges \in {<<NumAnagramsCond(r1[1], r1[2]), NumAnagramsCond(r2[1], r2[2])>>} :
            Search(SearchSpec(
                       SubSeq(ranges, 1, at) \o
                       <<InWordList(FALSE, <<67, 65, 84, 32, 65, 67, 84, 32, 65, 84>>)>> \o
                       SubSeq(ranges, at + 1, 2),
                       TRUE),
                   FALSE)

NextRanges == WordListImport \/ SearchCountRanges

SpecRanges == Init /\ [][NextRanges]_vars

\* the greatest minValue and the least maxValue of the NumAnagrams conditions
RECURSIVE GreatestMin(_)
GreatestMin(conditions) ==
    IF conditions = <<>> THEN 0
    ELSE IF Head(conditions).type = "NumAnagrams"
    THEN Max(Head(conditions).minValue, GreatestMin(Tail(conditions)))
    ELSE GreatestMin(Tail(conditions))

RECURSIVE LeastMax(_)
LeastMax(conditions) ==
    IF conditions = <<>> THEN MAX_ANAGRAMS
    ELSE IF Head(conditions).type = "NumAnagrams"
    THEN LET rest == LeastMax(Tail(conditions)) IN
         IF Head(conditions).maxValue < rest THEN Head(conditions).maxValue ELSE rest
    ELSE LeastMax(Tail(conditions))

\* the last NumAnagrams condition of the spec
LastRange(spec) ==
    spec.conditions[CHOOSE i \in NumAnagramsAt(spec) :
                        \A j \in NumAnagramsAt(spec) : j <= i]

HasSeveralRanges(spec) == Cardinality(NumAnagramsAt(spec)) > 1

\* C19 as claimed: nonGraphSearch for a spec with several NumAnagrams
\* conditions returns the candidate words whose anagram count is in every one
\* of their ranges, and nothing when no count is in all of them
C19_RangesAreIntersected ==
    (lastOp.op = "search" /\ ~lastOp.graphSearched
        /\ HasSeveralRanges(lastOp.spec)) =>
        ListToSet(lastOp.result) =
            {w \in Candidates(lastOp.spec) :
                 /\ CountOf(w) >= GreatestMin(lastOp.spec.conditions)
                 /\ CountOf(w) <= LeastMax(lastOp.spec.conditions)}

\* what nonGraphSearch does with two ranges: nothing is returned when they
\* have no count in common; otherwise the candidate words whose count is in
\* the range of the later condition are
C19_LaterRangeIsUsed ==
    (lastOp.op = "search" /\ ~lastOp.graphSearched
        /\ Cardinality(NumAnagramsAt(lastOp.spec)) = 2) =>
        ListToSet(lastOp.result) =
            IF GreatestMin(lastOp.spec.conditions) > LeastMax(lastOp.spec.conditions)
            THEN {}
            ELSE {w \in Candidates(lastOp.spec) :
                     /\ CountOf(w) >= LastRange(lastOp.spec).minValue
                     /\ CountOf(w) <= LastRange(lastOp.spec).maxValue}

-----------------------------------------------------------------------------
(* The groups of words made from stems *)

\* the stem lists read: "SATIRE", "RETINA", "RETINAS", "CAT"
StemGroupFiles ==
    { <<<<83, 65, 84, 73, 82, 69>>>>, <<<<82, 69, 84, 73, 78, 65>>>>, <<<<82, 69, 84, 73, 78, 65, 83>>>>, <<<<67, 65, 84>>>> }

StemGroupImport ==
    \E file \in StemGroupFiles :
        /\ importStems(file, TRUE)
        /\ \A L \in DOMAIN stems' : Len(stems'[L]) <= MaxStems

\* the words asked about: "SATIRES", "RETINAS", "CATTIER", "STAINERS",
\* "CATTIEST", "RETINULA", "CATS"
StemGroupWords ==
    { <<83, 65, 84, 73, 82, 69, 83>>, <<82, 69, 84, 73, 78, 65, 83>>, <<67, 65, 84, 84, 73, 69, 82>>, <<83, 84, 65, 73, 78, 69, 82, 83>>,
      <<67, 65, 84, 84, 73, 69, 83, 84>>, <<82, 69, 84, 73, 78, 85, 76, 65>>, <<67, 65, 84, 83>> }

StemGroupMembership ==
    \E word \in StemGroupWords,
       ss \in {"SetTypeOneSevens", "SetTypeOneEights", "SetEightsFromSevenLetterStems"} :
        IsSetMember(word, ss)

NextStemGroups == StemGroupImport \/ StemGroupMembership

SpecStemGroups == Init /\ [][NextStemGroups]_vars

\* the sequence without its element at position i (1-based)
WithoutPosition(seq, i) == SubSeq(seq, 1, i - 1) \o SubSeq(seq, i + 1, Len(seq))

\* deleting one letter position of the alphagram of the word gives an
\* alphagram kept under the length L
OneDeletionIsStemOf(word, L) ==
    /\ L \in DOMAIN stemAlphagrams
    /\ \E i \in 1..Len(word) :
           WithoutPosition(getAlphagram(word), i) \in stemAlphagrams[L]

\* C21: the test of the type-one sevens is true exactly of the words of 7
\* letters whose alphagram, with one letter position deleted, is an alphagram
\* of the stems of length 6; the test of the eights from seven-letter stems is
\* true exactly of the words of 8 letters of which the same holds with the
\* stems of length 7; both are false when there are no stems of that length
C21_OneLetterDeletionGroups ==
    lastOp.op = "isSetMember" =>
        /\ lastOp.ss = "SetTypeOneSevens" =>
               lastOp.ret = (Len(lastOp.word) = 7 /\ OneDeletionIsStemOf(lastOp.word, 6))
        /\ lastOp.ss = "SetEightsFromSevenLetterStems" =>
               lastOp.ret = (Len(lastOp.word) = 8 /\ OneDeletionIsStemOf(lastOp.word, 7))

\* "STAINERS" is one of the eights from the seven-letter stem "RETINAS"
C21_Witness ==
    /\ lastOp.op = "isSetMember" /\ lastOp.ss = "SetEightsFromSevenLetterStems"
    /\ lastOp.word = <<83, 84, 65, 73, 78, 69, 82, 83>>
    /\ 7 \in DOMAIN stems /\ 6 \in DOMAIN stems
    /\ lastOp.ret = TRUE

\* "SATIRES" is a type-one seven over "SATIRE", "CATTIER" is none
C21_WitnessSeven ==
    /\ lastOp.op = "isSetMember" /\ lastOp.ss = "SetTypeOneSevens"
    /\ lastOp.word = <<67, 65, 84, 84, 73, 69, 82>>
    /\ 6 \in DOMAIN stems /\ lastOp.ret = FALSE
    /\ isSetMember(<<83, 65, 84, 73, 82, 69, 83>>, "SetTypeOneSevens")

\* with no stems of length 7 read, "STAINERS" is not one of the eights
C21_WitnessNoBucket ==
    /\ lastOp.op = "isSetMember" /\ lastOp.ss = "SetEightsFromSevenLetterStems"
    /\ lastOp.word = <<83, 84, 65, 73, 78, 69, 82, 83>>
    /\ 6 \in DOMAIN stems /\ 7 \notin DOMAIN stems
    /\ lastOp.ret = FALSE

\* the letters of s, each as often as it is in s, are among the letters of w
IsSubMultiset(s, w) ==
    \A i \in 1..Len(s) : Occurrences(s, s[i]) <= Occurrences(w, s[i])

\* C22: the test of the type-one eights is true exactly of the words of 8
\* letters for which the letters of some alphagram of the stems of length 6
\* are, each as often as it is there, among the letters of the word: the
\* alignment then reaches the end of that alphagram with at most 2 letters
\* of the word passed over, and it reaches it whenever the test is true
C22_TypeOneEightsHoldAStem ==
    (lastOp.op = "isSetMember" /\ lastOp.ss = "SetTypeOneEights") =>
        /\ lastOp.ret =
               (/\ Len(lastOp.word) = 8
                /\ 6 \in DOMAIN stemAlphagrams
                /\ \E s \in stemAlphagrams[6] : IsSubMultiset(s, lastOp.word))
        /\ lastOp.ret =>
               \E s \in stemAlphagrams[6] :
                   /\ MissingLetters(getAlphagram(lastOp.word), s, 0, 0, 0) <= 2
                   /\ StemPointer(getAlphagram(lastOp.word), s, 0, 0, 0) = Len(s)

\* "STAINERS" is a type-one eight over "SATIRE", and not over "RETINA" alone
C22_Witness ==
    /\ lastOp.op = "isSetMember" /\ lastOp.ss = "SetTypeOneEights"
    /\ lastOp.word = <<83, 84, 65, 73, 78, 69, 82, 83>>
    /\ 6 \in DOMAIN stems /\ stems[6] = << <<83, 65, 84, 73, 82, 69>> >>
    /\ lastOp.ret = TRUE

\* "CATTIEST" is no type-one eight over "SATIRE": three of its letters are
\* passed over before the stem is used up
C22_WitnessNot ==
    /\ lastOp.op = "isSetMember" /\ lastOp.ss = "SetTypeOneEights"
    /\ lastOp.word = <<67, 65, 84, 84, 73, 69, 83, 84>>
    /\ 6 \in DOMAIN stems /\ stems[6] = << <<83, 65, 84, 73, 82, 69>> >>
    /\ lastOp.ret = FALSE

-----------------------------------------------------------------------------
(* The text put in the place of a link *)

\* the sense text has a follow token {WORD=POS}, a replace token <WORD=POS>
HasFollowToken(text) == FirstLink(text, 123, 125) > 0

HasReplaceToken(text) == FirstLink(text, 60, 62) > 0

\* where the token that is matched stands: the first follow token, or the
\* first replace token when there is no follow token
TokenIndex(text) ==
    IF HasFollowToken(text) THEN FirstLink(text, 123, 125)
    ELSE FirstLink(text, 60, 62)

\* the first sense the table has for the word under the part of speech, cut
\* before its " [" annotation; empty when there is none
SubDefinitionOf(word, pos) ==
    IF word \notin DOMAIN definitions THEN <<>>
    ELSE IF \A k \in 1..Len(definitions[word]) : definitions[word][k][1] # pos
    THEN <<>>
    ELSE LET k == CHOOSE k \in 1..Len(definitions[word]) :
                      /\ definitions[word][k][1] = pos
                      /\ \A j \in 1..(k - 1) : definitions[word][j][1] # pos
             sense == definitions[word][k][2]
         IN IF \E i \in 1..(Len(sense) - 1) : sense[i] = 32 /\ sense[i + 1] = 91
            THEN SubSeq(sense, 1,
                     (CHOOSE i \in 1..(Len(sense) - 1) :
                          /\ sense[i] = 32 /\ sense[i + 1] = 91
                          /\ \A j \in 1..(i - 1) : ~(sense[j] = 32 /\ sense[j + 1] = 91))
                     - 1)
            ELSE sense

\* the text with the token at index i replaced by the form of the name:
\* "bare" is word, "follow" is word (sub), "sub" is sub, "plain" is WORD, sub
Substituted(text, i, form) ==
    LET word == LinkWord(text, i)
        sub == SubDefinitionOf(toUpper(word), LinkPos(text, i))
        replacement ==
            CASE form = "bare" -> word
              [] form = "follow" -> word \o <<32, 40>> \o sub \o <<41>>
              [] form = "sub" -> sub
              [] form = "plain" -> toUpper(word) \o <<44, 32>> \o sub
    IN SubSeq(text, 1, i - 1) \o replacement \o
       SubSeq(text, i + LinkLength(text, i), Len(text))

\* the running call is at a sense text with a token to replace
AtToken == call.state = "running" /\ TokenIndex(call.sense.text) > 0

\* the activation that follows goes on with the same sense
GoesOnWithSense ==
    call'.state = "running" /\ call'.mit = call.mit /\ call.sense.maxDepth > 0

\* the text of the sense after the step: the text the next activation is
\* called with, or the text returned, which getDefinition appends
TextAfterStepIs(text) ==
    IF call.sense.maxDepth > 0 THEN call'.sense.text = text
    ELSE LET definition == (IF call.definition = <<>> THEN <<>>
                            ELSE call.definition \o <<32, 47, 32>>) \o text
         IN IF call'.state = "running" THEN call'.definition = definition
            ELSE lastOp'.result = definition

\* C23: in the resolution of one sense text, an activation that matches a
\* follow token with depth left enters follow mode, follow mode once entered
\* lasts as long as the sense is resolved, and no substitution made in follow
\* mode has the form "WORD, subDefinition", the substitution of a replace
\* token <WORD=POS> included
C23_FollowModeLasts ==
    [][AtToken =>
          /\ (GoesOnWithSense /\
                  (call.sense.useFollow \/ HasFollowToken(call.sense.text)))
                 => call'.sense.useFollow
          /\ ((call.sense.useFollow \/ HasFollowToken(call.sense.text))
                  /\ call.sense.maxDepth > 0)
                 => ~TextAfterStepIs(Substituted(call.sense.text,
                                                 TokenIndex(call.sense.text), "plain"))
       ]_vars

\* in the resolution of the sense "{ta=n} [n]" of AT the follow token was
\* replaced first, and then the replace token <at=n> of TA by the
\* sub-definition alone
C23_Witness ==
    /\ call.state = "running"
    /\ call.word = <<65, 84>>
    /\ call.sense.useFollow
    /\ call.sense.substitutions = 2
    /\ call.sense.text = <<116, 97, 32, 40, 123, 116, 97, 61, 110, 125, 41, 32, 91, 110, 93>>

\* C24: the text put in the place of the token matched is the bare word when
\* maxDepth is 0; otherwise it is "word (subDefinition)" for a follow token,
\* the subDefinition alone for a replace token met in follow mode, and
\* "WORD, subDefinition" with the word in upper case when follow mode was not
\* entered; the subDefinition is the first sense the table has for the word
\* in upper case under the part of speech, cut before its " [" annotation,
\* and is empty when the table has no such sense
C24_SubstitutedText ==
    [][AtToken =>
          TextAfterStepIs(
              Substituted(call.sense.text, TokenIndex(call.sense.text),
                  IF call.sense.maxDepth = 0 THEN "bare"
                  ELSE IF HasFollowToken(call.sense.text) THEN "follow"
                  ELSE IF call.sense.useFollow THEN "sub"
                  ELSE "plain"))
       ]_vars

\* getDefinition of TA, whose sense is "<at=n> [n]", has returned
\* "AT, ta (ta) [n]": the four forms one after the other
C24_Witness ==
    /\ lastOp.op = "getDefinition"
    /\ call.state = "idle"
    /\ lastOp.word = <<84, 65>>
    /\ lastOp.result = <<65, 84, 44, 32, 116, 97, 32, 40, 116, 97, 41, 32, 91, 110, 93>>

\* a link to a word the table does not have: the sense "{ta=n} [n]" of AT
\* with TA not defined
C24_WitnessNoEntry ==
    /\ lastOp.op = "getDefinition"
    /\ call.state = "idle"
    /\ lastOp.word = <<65, 84>>
    /\ <<84, 65>> \notin DOMAIN definitions
    /\ lastOp.result = <<116, 97, 32, 40, 41, 32, 91, 110, 93>>

-----------------------------------------------------------------------------
(* The two ways of answering a spec *)

\* the spec is one of conditions that are all to hold, each a word list that
\* is not negated or a range of anagram counts
IsOfListsAndCounts(spec) ==
    /\ spec.conjunction
    /\ \A i \in 1..Len(spec.conditions) :
           \/ spec.conditions[i].type = "InWordList" /\ ~spec.conditions[i].negated
           \/ spec.conditions[i].type = "NumAnagrams"

\* C27 as claimed: for such a spec the set-algebra path returns the acceptable
\* words that matchesConditions lets pass
C27_SetAlgebraAgreesWithFilter ==
    (lastOp.op = "search" /\ ~lastOp.graphSearched
        /\ IsOfListsAndCounts(lastOp.spec)) =>
        ListToSet(lastOp.result) =
            {w \in graph : matchesConditions(w, lastOp.spec.conditions)}

\* the same of the specs with one range of anagram counts at most, and that
\* one within 0..MAX_ANAGRAMS
C27_AgreesForOneRange ==
    (lastOp.op = "search" /\ ~lastOp.graphSearched
        /\ IsOfListsAndCounts(lastOp.spec)
        /\ Cardinality(NumAnagramsAt(lastOp.spec)) <= 1
        /\ \A i \in NumAnagramsAt(lastOp.spec) :
               lastOp.spec.conditions[i].maxValue <= MAX_ANAGRAMS) =>
        ListToSet(lastOp.result) =
            {w \in graph : matchesConditions(w, lastOp.spec.conditions)}

-----------------------------------------------------------------------------
(* The senses of a definition without links *)

\* the lines of a word list whose definitions hold no link:
\*   "DO to do [v] / a deed [n]"
\*   "DO x [a]"
\*   "GO b [n] / a [n] / c"
\*   "NO a [n] / b [v]"
SenseLines ==
    { <<68, 79, 32, 116, 111, 32, 100, 111, 32, 91, 118, 93, 32, 47, 32, 97, 32, 100, 101, 101, 100, 32, 91, 110, 93>>,
      <<68, 79, 32, 120, 32, 91, 97, 93>>,
      <<71, 79, 32, 98, 32, 91, 110, 93, 32, 47, 32, 97, 32, 91, 110, 93, 32, 47, 32, 99>>,
      <<78, 79, 32, 97, 32, 91, 110, 93, 32, 47, 32, 98, 32, 91, 118, 93>> }

SenseFiles == SeqsUpTo(SenseLines, MaxLexiconFileLines)

\* a word list read with its definitions, while no call is running
SenseImport ==
    /\ call.state = "idle"
    /\ \E file \in SenseFiles : importTextFile(file, "OWL", TRUE, TRUE)

\* the words asked for: "DO", "GO", "NO", and "HM", which no line defines
SenseWords == { <<68, 79>>, <<71, 79>>, <<78, 79>>, <<72, 77>> }

SenseLookup == \E word \in SenseWords : GetDefinition(word)

NextSenses == SenseImport \/ SenseLookup \/ ReplaceStep

SpecSenses == Init /\ [][NextSenses]_vars

\* the definitions the lines give for a word
DefinitionsGivenFor(word) ==
    { sectionRest(l) : l \in {x \in SenseLines : sectionFirst(x) = word} }

\* the senses of a definition text
SensesOf(d) == split(d, <<32, 47, 32>>)

\* the entry of the word was built from the definition d: it holds the
\* senses of d, each as many times as d does
StoredFrom(word, d) ==
    /\ word \in DOMAIN definitions
    /\ Len(definitions[word]) = Len(SensesOf(d))
    /\ \A x \in ListToSet(SensesOf(d)) :
           Cardinality({i \in 1..Len(SensesOf(d)) : SensesOf(d)[i] = x}) =
           Cardinality({i \in 1..Len(definitions[word]) : definitions[word][i][2] = x})

\* getDefinition has returned for a word that has an entry
HasLookedUp ==
    /\ lastOp.op = "getDefinition"
    /\ call.state = "idle"
    /\ lastOp.word \in DOMAIN definitions

\* the tags of the senses never go down, in the order of QString
TagsAscend(senses) ==
    \A i \in 1..Len(senses) : \A j \in 1..Len(senses) :
        i < j => ~LexLess(posOf(senses[j]), posOf(senses[i]))

\* rs holds the senses ds ordered by tag, the senses of one tag in the order
\* they have in ds
IsOrderedByTag(rs, ds) ==
    /\ Len(rs) = Len(ds)
    /\ TagsAscend(rs)
    /\ \E p \in [1..Len(ds) -> 1..Len(ds)] :
           /\ \A i \in 1..Len(ds) : \A j \in 1..Len(ds) : i # j => p[i] # p[j]
           /\ \A i \in 1..Len(ds) : rs[i] = ds[p[i]]
           /\ \A i \in 1..Len(ds) : \A j \in 1..Len(ds) :
                  (i < j /\ posOf(rs[i]) = posOf(rs[j])) => p[i] < p[j]

\* C29 as stated: getDefinition gives back the definition a word was added
\* with, its senses in their original order whatever their tags are
C29_RoundTrip ==
    HasLookedUp =>
        \A d \in DefinitionsGivenFor(lastOp.word) :
            StoredFrom(lastOp.word, d) => lastOp.result = d

\* C29: getDefinition gives back the senses of the definition a word was first
\* added with, ordered by part-of-speech tag (an untagged sense first) and,
\* for one tag, in their original order; it is the definition itself when the
\* tags ascend already. A later addDefinition for the word changes nothing.
C29_SensesComeBackByTag ==
    /\ [](HasLookedUp =>
            /\ \E d \in DefinitionsGivenFor(lastOp.word) : StoredFrom(lastOp.word, d)
            /\ \A d \in DefinitionsGivenFor(lastOp.word) :
                   StoredFrom(lastOp.word, d) =>
                       /\ IsOrderedByTag(SensesOf(lastOp.result), SensesOf(d))
                       /\ TagsAscend(SensesOf(d)) => lastOp.result = d)
    /\ [][\A w \in DOMAIN definitions :
              w \in DOMAIN definitions' /\ definitions'[w] = definitions[w]]_vars

\* "DO" was added with "to do [v] / a deed [n]" and its senses come back
\* the other way round
C29_Witness ==
    /\ HasLookedUp
    /\ lastOp.word = <<68, 79>>
    /\ StoredFrom(lastOp.word, <<116, 111, 32, 100, 111, 32, 91, 118, 93, 32, 47, 32, 97, 32, 100, 101, 101, 100, 32, 91, 110, 93>>)
    /\ lastOp.result = <<97, 32, 100, 101, 101, 100, 32, 91, 110, 93, 32, 47, 32, 116, 111, 32, 100, 111, 32, 91, 118, 93>>

\* "NO" comes back as it was added; "DO", added with "x [a]" and read again
\* with its other definition, comes back as "x [a]"
C29_WitnessKept ==
    /\ HasLookedUp
    /\ lastOp.word = <<78, 79>>
    /\ lastOp.result = <<97, 32, 91, 110, 93, 32, 47, 32, 98, 32, 91, 118, 93>>
    /\ <<68, 79>> \in DOMAIN definitions
    /\ definitions[<<68, 79>>] = << <<<<97>>, <<120, 32, 91, 97, 93>>>> >>

-----------------------------------------------------------------------------
(* CrosswordGameForm and its connection thread *)

\* the form is constructed with iscThread (0), the Connect button enabled and
\* the Disconnect button disabled; iscThread is 0 for the null pointer and 1
\* for a thread object; connections counts how many times the signals of the
\* thread are connected to the slots of the form

\* CrosswordGameForm::connectClicked, with whether the credentials file opens
\* and whether connectToServer succeeds (it starts the thread when it does)
connectClicked(form, fileOpens, connected) ==
    LET created == IF form.iscThread = 0
                   THEN [form EXCEPT !.iscThread = 1, !.isRunning = FALSE,
                                     !.connections = 0]
                   ELSE form
    IN  IF created.isRunning THEN created
        ELSE IF ~fileOpens THEN created
        ELSE IF ~connected THEN [created EXCEPT !.connections = @ + 1]
        ELSE [created EXCEPT !.connections = @ + 1, !.isRunning = TRUE,
                             !.connectButton = FALSE, !.disconnectButton = TRUE]

\* CrosswordGameForm::disconnectClicked
disconnectClicked(form) ==
    IF form.iscThread = 0 THEN form
    ELSE [form EXCEPT !.iscThread = 0, !.isRunning = FALSE, !.connections = 0,
                      !.disconnectButton = FALSE, !.connectButton = TRUE]

\* the variables of the word engine, which the form leaves alone
engineVars ==
    <<graph, reverseGraph, numAnagramsMap, lexiconName, definitions, stems,
      stemAlphagrams, call, definitionsThread, readWords>>

\* the Connect button is clicked
ConnectClicked ==
    /\ ~crosswordGameForm.crashed
    /\ crosswordGameForm.connections < MaxSignalConnections
    /\ \E fileOpens \in BOOLEAN, connected \in BOOLEAN :
          /\ crosswordGameForm' =
                 connectClicked(crosswordGameForm, fileOpens, connected)
          /\ lastOp' = [op |-> "connectClicked", fileOpens |-> fileOpens,
                        connected |-> connected]
    /\ UNCHANGED engineVars

\* the Disconnect button is clicked
DisconnectClicked ==
    /\ ~crosswordGameForm.crashed
    /\ crosswordGameForm' = disconnectClicked(crosswordGameForm)
    /\ lastOp' = [op |-> "disconnectClicked"]
    /\ UNCHANGED engineVars

\* the thread, whose socketError signal is connected to the form, reports an
\* error: CrosswordGameForm::threadSocketError warns and calls disconnectClicked
ThreadSocketError ==
    /\ ~crosswordGameForm.crashed
    /\ crosswordGameForm.iscThread # 0
    /\ crosswordGameForm.connections > 0
    /\ crosswordGameForm' = disconnectClicked(crosswordGameForm)
    /\ lastOp' = [op |-> "threadSocketError"]
    /\ UNCHANGED engineVars

\* the run of the thread ends
ThreadFinished ==
    /\ ~crosswordGameForm.crashed
    /\ crosswordGameForm.isRunning
    /\ crosswordGameForm' = [crosswordGameForm EXCEPT !.isRunning = FALSE]
    /\ lastOp' = [op |-> "threadFinished"]
    /\ UNCHANGED engineVars

\* the texts of the input line: "", "hi"
InputTexts == { <<>>, <<104, 105>> }

\* what a call through a null iscThread can do: end the program, or go on
NullCallOutcomes == {"crash", "continues"}

\* the user edits the input line
TextEdited ==
    /\ ~crosswordGameForm.crashed
    /\ \E text \in InputTexts \ {crosswordGameForm.inputLine} :
          crosswordGameForm' = [crosswordGameForm EXCEPT !.inputLine = text]
    /\ lastOp' = [op |-> "textEdited"]
    /\ UNCHANGED engineVars

\* CrosswordGameForm::inputReturnPressed: return is pressed in the input
\* line; the line is cleared once the message is sent
InputReturnPressed ==
    /\ ~crosswordGameForm.crashed
    /\ crosswordGameForm.messages < MaxMessages
    /\ \E text \in {crosswordGameForm.inputLine} :
          IF text = <<>>
          THEN /\ crosswordGameForm' = crosswordGameForm
               /\ lastOp' = [op |-> "inputReturnPressed", text |-> text,
                             sent |-> FALSE,
                             iscThread |-> crosswordGameForm.iscThread]
          ELSE /\ \E outcome \in IF crosswordGameForm.iscThread = 0
                                 THEN NullCallOutcomes ELSE {"continues"} :
                      crosswordGameForm' =
                          [crosswordGameForm EXCEPT
                              !.messages = @ + 1,
                              !.crashed = (outcome = "crash"),
                              !.inputLine = IF outcome = "crash" THEN @
                                            ELSE <<>>]
               /\ lastOp' = [op |-> "inputReturnPressed", text |-> text,
                             sent |-> TRUE,
                             iscThread |-> crosswordGameForm.iscThread]
    /\ UNCHANGED engineVars

NextCrossword ==
    \/ ConnectClicked
    \/ DisconnectClicked
    \/ ThreadSocketError
    \/ ThreadFinished
    \/ TextEdited
    \/ InputReturnPressed

SpecCrossword == Init /\ [][NextCrossword]_vars

\* C30: whenever inputReturnPressed, with a text that is not empty, sends a
\* message through iscThread, iscThread is not the null pointer
C30_SendsThroughAThread ==
    (lastOp.op = "inputReturnPressed" /\ lastOp.sent) => lastOp.iscThread # 0

\* while the Disconnect button is enabled, that is from a connectClicked that
\* succeeded to the next disconnectClicked, iscThread is not null
C30_ThreadWhileDisconnectEnabled ==
    crosswordGameForm.disconnectButton => crosswordGameForm.iscThread # 0

\* iscThread is null in the form as constructed and after each
\* disconnectClicked
C30_NullAfterDisconnect ==
    (lastOp.op \in {"none", "disconnectClicked", "threadSocketError"}) =>
        crosswordGameForm.iscThread = 0

====
